---- MODULE Spec2Model ----
(***************************************************************************)
(* StatusHub: the presence change-detection engine (src/discord/mod.rs),   *)
(* its reminder loop, and the persistent status cache                      *)
(* (src/state_cache.rs) with its optional sqlite tier (src/cache.rs).      *)
(*                                                                         *)
(* Handlers are modelled as atomic actions: one action is one complete run *)
(* of handle_presence_update, of one iteration of run_reminder_loop, of    *)
(* one iteration of the send loop, or of set_status.  A crash in the       *)
(* middle of a handler is covered by the I/O failure outcomes followed by  *)
(* ProcessRestart.                                                         *)
(***************************************************************************)
EXTENDS Integers, Sequences, FiniteSets, TLC

VARIABLES
    settings,       \* DiscordSettings flags read by run()
    reminder,       \* ReminderSettings
    store_cfg,      \* [state_cache: is run()'s state_cache Some, sqlite: CacheBackend::Sqlite]
    now,            \* wall clock, seconds (Utc::now().timestamp())
    runtime_state,  \* RuntimePresenceState behind the Mutex
    chan,           \* mpsc channel tx -> rx
    state,          \* PersistentStatusCache.state (HashMap<String, StatusRecord>)
    file,           \* the status file at PersistentStatusCache.path (None if absent)
    db,             \* cache_entries table of the sqlite tier
    last_op,        \* locals of the handler that ran last
    fired,          \* history: sequences fired for the current ReminderAnchor value
    ann,            \* history: where the event announcing the current presence is
    pre,            \* history: what the previous process lifetimes had announced
    steam_cfg,      \* SteamSettings read by SteamClient::new
    memory_cache,   \* SteamClient.memory_cache (HashMap<u32, MemoryCacheEntry>)
    instant,        \* monotonic clock, seconds (Instant::now())
    phase,          \* where the process is: "running", "draining" or "exited"
    channel_capacity, \* the capacity run() gives the mpsc channel
    in_flight       \* events built under the lock whose tx.send is still to run

\* The variables of the SteamClient and the process phase.
steam_vars == <<steam_cfg, memory_cache, instant>>

vars == <<settings, reminder, store_cfg, now, runtime_state, chan, state, file, db,
          last_op, fired, ann, pre, steam_cfg, memory_cache, instant, phase,
          channel_capacity, in_flight>>

(***************************************************************************)
(* Bounds                                                                  *)
(***************************************************************************)
\* How many reminder intervals the modelled clock covers.
MaxIntervals == 2
\* Capacity of the event channel (the code uses 256; the model a small one).
MaxChan == 1
\* Capacity of the channel in the specification of the pipeline.
MaxPending == 2
\* Largest memory_cache_capacity of the configurations.
MaxCapacity == 2
\* How many seconds the clocks of the SteamClient cover.
MaxTime == 2
\* Longest short_description the store API returns, in characters.
MaxTextLen == 3
\* Largest description_max_chars of the configurations.
MaxDescriptionChars == 2

\* Option<T>: None is the empty sequence, Some(x) the one-element sequence.
None == <<>>
Some(x) == <<x>>
IsSome(o) == o # <<>>
Unwrap(o) == o[1]

(***************************************************************************)
(* event.rs                                                                *)
(***************************************************************************)
DiscordStatus == {"Online", "Idle", "Dnd", "Offline", "Invisible", "Unknown"}

\* impl Display for DiscordStatus; serde rename_all = "snake_case" gives the
\* same strings for these single-word variants.
StatusToString(s) ==
    CASE s = "Online" -> "online"
      [] s = "Idle" -> "idle"
      [] s = "Dnd" -> "dnd"
      [] s = "Offline" -> "offline"
      [] s = "Invisible" -> "invisible"
      [] s = "Unknown" -> "unknown"

\* serde Deserialize for DiscordStatus: None stands for a parse error.
StatusFromString(t) ==
    CASE t = "online" -> Some("Online")
      [] t = "idle" -> Some("Idle")
      [] t = "dnd" -> Some("Dnd")
      [] t = "offline" -> Some("Offline")
      [] t = "invisible" -> Some("Invisible")
      [] t = "unknown" -> Some("Unknown")
      [] OTHER -> None

\* Variant of NewEvent that drops the activity.
NewEvent_without_activity(guild_id, previous_status, current_status, activity, reminder_ctx) ==
    [guild_id |-> guild_id,
     previous_status |-> previous_status,
     current_status |-> current_status,
     activity |-> None,
     reminder |-> reminder_ctx]

\* Variant of NewEvent that keeps the previous status the state held in a
\* reminder too and drops the reminder metadata.
NewEvent_without_reminder(guild_id, previous_status, current_status, activity, reminder_ctx) ==
    [guild_id |-> guild_id,
     previous_status |-> IF reminder_ctx = <<>> THEN previous_status
                         ELSE <<current_status>>,
     current_status |-> current_status,
     activity |-> activity,
     reminder |-> <<>>]

\* DiscordStatusChangedEvent::new (source, user_id are fixed; observed_at is
\* not used by any decision and is left out).
NewEvent(guild_id, previous_status, current_status, activity, reminder_ctx) ==
    [guild_id |-> guild_id,
     previous_status |-> previous_status,
     current_status |-> current_status,
     activity |-> activity,
     reminder |-> reminder_ctx]

(***************************************************************************)
(* discord/mod.rs: pure helpers                                            *)
(***************************************************************************)
\* The upstream statuses observations are drawn from.
RawStatuses == {"Online", "Idle"}

normalize_status(raw) ==
    CASE raw = "Online" -> "Online"
      [] raw = "Idle" -> "Idle"
      [] raw = "DoNotDisturb" -> "Dnd"
      [] raw = "Offline" -> "Offline"
      [] raw = "Invisible" -> "Invisible"
      [] OTHER -> "Unknown"

\* serenity Activity values observations are built from.
Dota ==
    [kind |-> "Playing", name |-> "Dota 2", details |-> None, state |-> None,
     application_id |-> None, large_image |-> Some("steam:570"), small_image |-> None]
Spotify ==
    [kind |-> "Listening", name |-> "Spotify", details |-> None, state |-> None,
     application_id |-> None, large_image |-> Some("spotify:ab67"), small_image |-> None]
CustomStatus ==
    [kind |-> "Custom", name |-> "Custom Status", details |-> None, state |-> Some("brb"),
     application_id |-> None, large_image |-> None, small_image |-> None]

\* The activity lists an observation can carry.
ActivityLists == {<<>>, <<Dota>>, <<Spotify, Dota>>, <<CustomStatus>>}

\* The guild an observation can come from.
GuildIds == {"99"}

\* raw.strip_prefix("steam:")?.parse::<u32>().ok(), on the asset strings above.
parse_steam_asset_app_id(raw) ==
    CASE raw = "steam:570" -> Some(570)
      [] OTHER -> None

\* activity.assets is Some exactly when one of the two images is present.
extract_steam_app_id(activity) ==
    IF activity.large_image = None /\ activity.small_image = None
    THEN None
    ELSE LET large == IF activity.large_image = None THEN None
                      ELSE parse_steam_asset_app_id(Unwrap(activity.large_image))
         IN  IF IsSome(large) THEN large
             ELSE IF activity.small_image = None THEN None
                  ELSE parse_steam_asset_app_id(Unwrap(activity.small_image))

\* Iterator::find: the index of the first activity of one of the kinds, or 0.
FirstIndex(activities, kinds) ==
    LET hits == {i \in 1..Len(activities) : activities[i].kind \in kinds}
    IN  IF hits = {} THEN 0 ELSE CHOOSE i \in hits : \A j \in hits : i <= j

PlayingKinds == {"Playing"}
SecondaryKinds == {"Streaming", "Listening", "Watching", "Competing"}

pick_primary_activity(activities) ==
    LET p == FirstIndex(activities, PlayingKinds)
        q == FirstIndex(activities, SecondaryKinds)
    IN  IF p # 0 THEN Some(activities[p])
        ELSE IF q # 0 THEN Some(activities[q])
        ELSE IF Len(activities) > 0 THEN Some(activities[1])
        ELSE None

extract_activity_context(activities) ==
    LET picked == pick_primary_activity(activities)
    IN  IF picked = None THEN None
        ELSE LET activity == Unwrap(picked)
             IN  Some([name |-> activity.name, details |-> activity.details,
                       state |-> activity.state,
                       steam_app_id |-> extract_steam_app_id(activity)])

\* The fingerprint string is the "||"-join of one formatted part per activity;
\* it is kept as the sequence of parts, the empty string being <<>>.
build_activity_fingerprint(activities) ==
    [i \in 1..Len(activities) |->
        <<activities[i].kind, activities[i].name, activities[i].details,
          activities[i].state, activities[i].application_id,
          IF activities[i].large_image = None THEN "-"
          ELSE Unwrap(activities[i].large_image),
          IF activities[i].small_image = None THEN "-"
          ELSE Unwrap(activities[i].small_image)>>]

\* Ids are kept as their decimal strings, as format! prints them.
make_status_cache_key(user_id, guild_id) ==
    IF IsSome(guild_id) THEN <<"discord", user_id, Unwrap(guild_id)>>
    ELSE <<"discord", user_id, "*">>

\* Variant of reminder_anchor_key that keys every anchor on the status alone.
reminder_anchor_key_status_only(rem, rich_presence_only, status, activity) ==
    IF ~rem.enabled THEN None
    ELSE IF rich_presence_only /\ activity = None THEN None
    ELSE Some(<<"status", StatusToString(status)>>)

\* Variant of reminder_anchor_key without the rich_presence_only return.
reminder_anchor_key_ignoring_rich_presence(rem, rich_presence_only, status, activity) ==
    IF ~rem.enabled THEN None
    ELSE IF rem.steam_only
         THEN IF IsSome(activity) /\ IsSome(Unwrap(activity).steam_app_id)
              THEN Some(<<"steam", Unwrap(Unwrap(activity).steam_app_id),
                          StatusToString(status)>>)
              ELSE None
         ELSE Some(<<"status", StatusToString(status)>>)

reminder_anchor_key(rem, rich_presence_only, status, activity) ==
    IF ~rem.enabled THEN None
    ELSE IF rich_presence_only /\ activity = None THEN None
    ELSE IF rem.steam_only
         THEN IF IsSome(activity) /\ IsSome(Unwrap(activity).steam_app_id)
              THEN Some(<<"steam", Unwrap(Unwrap(activity).steam_app_id),
                          StatusToString(status)>>)
              ELSE None
         ELSE Some(<<"status", StatusToString(status)>>)

\* Variant of should_emit_presence_event whose non-rich branch does not ask
\* whether the activity changed.
should_emit_on_every_update(status_changed, activity_changed, emit_on_activity_change, rich_presence_only, has_activity, emit_initial_status, has_previous_status) ==
    LET trigger_change ==
            IF rich_presence_only
            THEN emit_on_activity_change /\ activity_changed /\ has_activity
            ELSE status_changed \/ emit_on_activity_change
    IN  trigger_change /\ (emit_initial_status \/ has_previous_status)

\* Variant of should_emit_presence_event whose rich-presence branch does not
\* ask for an activity.
should_emit_without_has_activity(status_changed, activity_changed, emit_on_activity_change, rich_presence_only, has_activity, emit_initial_status, has_previous_status) ==
    LET trigger_change ==
            IF rich_presence_only
            THEN emit_on_activity_change /\ activity_changed
            ELSE status_changed \/ (emit_on_activity_change /\ activity_changed)
    IN  trigger_change /\ (emit_initial_status \/ has_previous_status)

should_emit_presence_event(status_changed, activity_changed, emit_on_activity_change, rich_presence_only, has_activity, emit_initial_status, has_previous_status) ==
    LET trigger_change ==
            IF rich_presence_only
            THEN emit_on_activity_change /\ activity_changed /\ has_activity
            ELSE status_changed \/ (emit_on_activity_change /\ activity_changed)
    IN  trigger_change /\ (emit_initial_status \/ has_previous_status)

(***************************************************************************)
(* cache.rs: the sqlite tier.  db is the set of rows of cache_entries, at  *)
(* most one per (namespace, key); updated_at is written but never read and *)
(* is left out.                                                            *)
(***************************************************************************)
\* Variant of RowOf that matches the key in every namespace.
RowOf_any_namespace(rows, namespace, key) == {r \in rows : r.key = key}

RowOf(rows, namespace, key) ==
    {r \in rows : r.namespace = namespace /\ r.key = key}

IsExpired(row, t) == IsSome(row.expires_at) /\ Unwrap(row.expires_at) <= t

\* SqliteCacheStore::get: the value returned and the table afterwards.
SqliteGet(rows, namespace, key, t) ==
    LET hit == RowOf(rows, namespace, key)
    IN  IF hit = {} THEN [value |-> None, rows |-> rows]
        ELSE LET row == CHOOSE r \in hit : TRUE
             IN  IF IsExpired(row, t)
                 THEN [value |-> None, rows |-> rows \ hit]
                 ELSE [value |-> Some(row.value), rows |-> rows]

\* Variant of SqliteSet that sweeps the rows of the written namespace only.
SqliteSet_sweeping_own_namespace(rows, namespace, key, value, ttl_seconds, t) ==
    LET expires_at == IF IsSome(ttl_seconds) THEN Some(t + Unwrap(ttl_seconds)) ELSE None
        upserted == (rows \ RowOf(rows, namespace, key)) \cup
                    {[namespace |-> namespace, key |-> key, value |-> value,
                      expires_at |-> expires_at]}
    IN  {r \in upserted : ~(r.namespace = namespace /\ IsExpired(r, t))}

\* SqliteCacheStore::set: upsert, then sweep every expired row.
SqliteSet(rows, namespace, key, value, ttl_seconds, t) ==
    LET expires_at == IF IsSome(ttl_seconds) THEN Some(t + Unwrap(ttl_seconds)) ELSE None
        upserted == (rows \ RowOf(rows, namespace, key)) \cup
                    {[namespace |-> namespace, key |-> key, value |-> value,
                      expires_at |-> expires_at]}
    IN  {r \in upserted : ~IsExpired(r, t)}

\* Variant of get_json that fails when no sqlite store is configured.
get_json_requiring_store(sqlite, rows, namespace, key, t, io) ==
    IF ~sqlite \/ io = "err" THEN [ok |-> FALSE, value |-> None, rows |-> rows]
    ELSE LET got == SqliteGet(rows, namespace, key, t)
         IN  IF got.value = None THEN [ok |-> TRUE, value |-> None, rows |-> got.rows]
             ELSE LET parsed == StatusFromString(Unwrap(got.value))
                  IN  [ok |-> IsSome(parsed), value |-> parsed, rows |-> got.rows]

\* CacheService::get_json::<DiscordStatus>.  io is "ok" or "err" (the sqlite
\* call failed).  result is Ok(Option<DiscordStatus>) or the string "Err".
get_json(sqlite, rows, namespace, key, t, io) ==
    IF ~sqlite THEN [ok |-> TRUE, value |-> None, rows |-> rows]
    ELSE IF io = "err" THEN [ok |-> FALSE, value |-> None, rows |-> rows]
    ELSE LET got == SqliteGet(rows, namespace, key, t)
         IN  IF got.value = None THEN [ok |-> TRUE, value |-> None, rows |-> got.rows]
             ELSE LET parsed == StatusFromString(Unwrap(got.value))
                  IN  [ok |-> IsSome(parsed), value |-> parsed, rows |-> got.rows]

\* CacheService::set_json of a DiscordStatus.
set_json(sqlite, rows, namespace, key, status, ttl_seconds, t, io) ==
    IF ~sqlite THEN [ok |-> TRUE, rows |-> rows]
    ELSE IF io = "err" THEN [ok |-> FALSE, rows |-> rows]
    ELSE [ok |-> TRUE,
          rows |-> SqliteSet(rows, namespace, key, StatusToString(status), ttl_seconds, t)]

(***************************************************************************)
(* steam.rs.  A HashMap<u32, MemoryCacheEntry> is a function from the app  *)
(* ids to Option<entry>; a String is the sequence of its characters.       *)
(***************************************************************************)
STEAM_GAME_DETAILS_NAMESPACE == "steam.game_details"

\* The app ids looked up.
AppIds == {570, 730, 440}

EmptyMemoryCache == [a \in AppIds |-> None]

\* The characters of the descriptions the store API returns.
Chars == {"a", "b", " "}

Ellipsis == <<".", ".", ".">>

\* Variant of truncate_chars that cuts without the marker.
truncate_chars_unmarked(input, max_chars) ==
    IF Len(input) > max_chars THEN SubSeq(input, 1, max_chars) ELSE input

\* truncate_chars: the loop pushes input[idx + 1] while idx < max_chars and
\* returns with the marker pushed at the first idx >= max_chars.
RECURSIVE truncate_loop(_, _, _, _)
truncate_loop(input, max_chars, idx, out) ==
    IF idx >= Len(input) THEN out
    ELSE IF idx >= max_chars THEN out \o Ellipsis
    ELSE truncate_loop(input, max_chars, idx + 1, Append(out, input[idx + 1]))

truncate_chars(input, max_chars) == truncate_loop(input, max_chars, 0, <<>>)

\* str::trim.
RECURSIVE trim_start(_)
trim_start(value) ==
    IF value # <<>> /\ Head(value) = " " THEN trim_start(Tail(value)) ELSE value

RECURSIVE trim_end(_)
trim_end(value) ==
    IF value # <<>> /\ value[Len(value)] = " "
    THEN trim_end(SubSeq(value, 1, Len(value) - 1)) ELSE value

non_empty_trimmed(value) ==
    LET trimmed == trim_end(trim_start(value))
    IN  IF trimmed = <<>> THEN None ELSE Some(trimmed)

\* The name the store API returns for an app.
AppName(app_id) ==
    CASE app_id = 570 -> "Dota 2"
      [] app_id = 730 -> "Counter-Strike 2"
      [] app_id = 440 -> "Team Fortress 2"

\* serde_json::to_string of a SteamGameDetails, and from_str back (None is a
\* parse error).
SerializeDetails(details) ==
    <<"app_id", details.app_id, "name", details.name,
      "short_description", details.short_description,
      "current_players", details.current_players>>

DeserializeDetails(raw) ==
    IF Len(raw) = 8 /\ raw[1] = "app_id" /\ raw[3] = "name"
       /\ raw[5] = "short_description" /\ raw[7] = "current_players"
    THEN Some([app_id |-> raw[2], name |-> raw[4], short_description |-> raw[6],
               current_players |-> raw[8]])
    ELSE None

\* The entries of the map that have not expired at t.
LiveKeys(cache, t) ==
    {a \in AppIds : IsSome(cache[a]) /\ Unwrap(cache[a]).expires_at > t}

StoredKeys(cache) == {a \in AppIds : IsSome(cache[a])}

\* Variant of get_from_memory_cache that does not look at expires_at.
get_from_memory_cache_ignoring_expiry(cache, app_id, t) ==
    IF cache[app_id] = None THEN [value |-> None, cache |-> cache]
    ELSE [value |-> Some(Unwrap(cache[app_id]).value), cache |-> cache]

\* SteamClient::get_from_memory_cache: the value returned and the map
\* afterwards.
get_from_memory_cache(cache, app_id, t) ==
    IF cache[app_id] = None THEN [value |-> None, cache |-> cache]
    ELSE IF Unwrap(cache[app_id]).expires_at <= t
         THEN [value |-> None, cache |-> [cache EXCEPT ![app_id] = None]]
         ELSE [value |-> Some(Unwrap(cache[app_id]).value), cache |-> cache]

\* What cache.keys().next() can return on the retained map of
\* put_to_memory_cache: any of its keys (HashMap iteration order is not
\* specified), or None when it is empty.
KeysNext(cache, t) ==
    IF LiveKeys(cache, t) = {} THEN {None} ELSE {Some(k) : k \in LiveKeys(cache, t)}

\* Variant of put_to_memory_cache that never evicts.
put_to_memory_cache_unbounded(cache, capacity, ttl, app_id, value, t, evict_key) ==
    [a \in AppIds |->
        IF a = app_id THEN Some([value |-> value, expires_at |-> t + ttl])
        ELSE IF a \in LiveKeys(cache, t) THEN cache[a]
        ELSE None]

\* SteamClient::put_to_memory_cache, evict_key being what keys().next()
\* returns.
put_to_memory_cache(cache, capacity, ttl, app_id, value, t, evict_key) ==
    LET retained == LiveKeys(cache, t)
        evicts == Cardinality(retained) >= capacity /\ app_id \notin retained
    IN  [a \in AppIds |->
            IF a = app_id THEN Some([value |-> value, expires_at |-> t + ttl])
            ELSE IF a \notin retained THEN None
            ELSE IF evicts /\ evict_key = Some(a) THEN None
            ELSE cache[a]]

\* app_id.to_string(), the key of the sqlite rows.
AppKey(app_id) ==
    CASE app_id = 570 -> <<"570">>
      [] app_id = 730 -> <<"730">>
      [] app_id = 440 -> <<"440">>

\* CacheService::get_json::<SteamGameDetails>.
get_details_json(sqlite, rows, namespace, key, t, io) ==
    IF ~sqlite THEN [ok |-> TRUE, value |-> None, rows |-> rows]
    ELSE IF io = "err" THEN [ok |-> FALSE, value |-> None, rows |-> rows]
    ELSE LET got == SqliteGet(rows, namespace, key, t)
         IN  IF got.value = None THEN [ok |-> TRUE, value |-> None, rows |-> got.rows]
             ELSE LET parsed == DeserializeDetails(Unwrap(got.value))
                  IN  [ok |-> IsSome(parsed), value |-> parsed, rows |-> got.rows]

\* CacheService::set_json of a SteamGameDetails.
set_details_json(sqlite, rows, namespace, key, details, ttl_seconds, t, io) ==
    IF ~sqlite THEN [ok |-> TRUE, rows |-> rows]
    ELSE IF io = "err" THEN [ok |-> FALSE, rows |-> rows]
    ELSE [ok |-> TRUE,
          rows |-> SqliteSet(rows, namespace, key, SerializeDetails(details),
                             ttl_seconds, t)]

\* Variant of get_from_database_cache that stops at the first Err of the
\* tier: it returns nothing and the row it read is taken for lost.
get_from_database_cache_failing(sqlite, rows, app_id, t, io) ==
    LET got == get_details_json(sqlite, rows, STEAM_GAME_DETAILS_NAMESPACE,
                                AppKey(app_id), t, io)
    IN  [value |-> IF got.ok THEN got.value ELSE None,
         rows |-> IF got.ok THEN got.rows
                  ELSE got.rows \ RowOf(got.rows, STEAM_GAME_DETAILS_NAMESPACE,
                                        AppKey(app_id))]

\* SteamClient::get_from_database_cache: an Err of the tier is a miss.
get_from_database_cache(sqlite, rows, app_id, t, io) ==
    LET got == get_details_json(sqlite, rows, STEAM_GAME_DETAILS_NAMESPACE,
                                AppKey(app_id), t, io)
    IN  [value |-> IF got.ok THEN got.value ELSE None, rows |-> got.rows]

\* SteamClient::put_to_database_cache: an Err of the tier is dropped.
put_to_database_cache(sqlite, rows, db_ttl, app_id, details, t, io) ==
    set_details_json(sqlite, rows, STEAM_GAME_DETAILS_NAMESPACE, AppKey(app_id),
                     details, Some(db_ttl), t, io).rows

\* What fetch_game_details_from_api can return: Err, Ok(None), or the
\* details built from the store's answer (description, player count).
ApiErr == [ok |-> FALSE, details |-> None]
ApiNone == [ok |-> TRUE, details |-> None]
ApiDetails(app_id, short_description, max_chars, current_players) ==
    LET trimmed == non_empty_trimmed(short_description)
    IN  [ok |-> TRUE,
         details |-> Some([app_id |-> app_id,
                           name |-> AppName(app_id),
                           short_description |->
                               IF trimmed = None THEN None
                               ELSE Some(truncate_chars(Unwrap(trimmed), max_chars)),
                           current_players |-> current_players])]

\* Variant of fetch_game_details that goes from a memory miss straight to
\* the store API.
fetch_game_details_skipping_database(cfg, cache, rows, sqlite, app_id, t_mono, t_wall, api, get_io, set_io, evict_key) ==
    LET mem == get_from_memory_cache(cache, app_id, t_mono)
        put(value) == put_to_memory_cache(mem.cache, cfg.memory_cache_capacity,
                                          cfg.memory_cache_ttl, app_id, value, t_mono,
                                          evict_key)
    IN  IF IsSome(mem.value)
        THEN [ok |-> TRUE, value |-> mem.value, cache |-> mem.cache, rows |-> rows,
              tier |-> "memory"]
        ELSE IF ~api.ok
        THEN [ok |-> FALSE, value |-> None, cache |-> mem.cache, rows |-> rows,
              tier |-> "api"]
        ELSE IF api.details = None
        THEN [ok |-> TRUE, value |-> None, cache |-> mem.cache, rows |-> rows,
              tier |-> "api"]
        ELSE [ok |-> TRUE, value |-> api.details, cache |-> put(Unwrap(api.details)),
              rows |-> put_to_database_cache(sqlite, rows, cfg.db_cache_ttl_seconds,
                                             app_id, Unwrap(api.details), t_wall, set_io),
              tier |-> "api"]

\* Variant of fetch_game_details that keeps an Ok(None) of the store API in
\* both tiers, as details without a name.
fetch_game_details_memoizing_none(cfg, cache, rows, sqlite, app_id, t_mono, t_wall, api, get_io, set_io, evict_key) ==
    LET mem == get_from_memory_cache(cache, app_id, t_mono)
        dbc == get_from_database_cache(sqlite, rows, app_id, t_wall, get_io)
        nothing == [app_id |-> app_id, name |-> "", short_description |-> None,
                    current_players |-> None]
        put(value) == put_to_memory_cache(mem.cache, cfg.memory_cache_capacity,
                                          cfg.memory_cache_ttl, app_id, value, t_mono,
                                          evict_key)
    IN  IF IsSome(mem.value)
        THEN [ok |-> TRUE, value |-> mem.value, cache |-> mem.cache, rows |-> rows,
              tier |-> "memory"]
        ELSE IF IsSome(dbc.value)
        THEN [ok |-> TRUE, value |-> dbc.value, cache |-> put(Unwrap(dbc.value)),
              rows |-> dbc.rows, tier |-> "database"]
        ELSE IF ~api.ok
        THEN [ok |-> FALSE, value |-> None, cache |-> mem.cache, rows |-> dbc.rows,
              tier |-> "api"]
        ELSE IF api.details = None
        THEN [ok |-> TRUE, value |-> None, cache |-> put(nothing),
              rows |-> put_to_database_cache(sqlite, dbc.rows, cfg.db_cache_ttl_seconds,
                                             app_id, nothing, t_wall, set_io),
              tier |-> "api"]
        ELSE [ok |-> TRUE, value |-> api.details, cache |-> put(Unwrap(api.details)),
              rows |-> put_to_database_cache(sqlite, dbc.rows, cfg.db_cache_ttl_seconds,
                                             app_id, Unwrap(api.details), t_wall, set_io),
              tier |-> "api"]

\* Variant of fetch_game_details whose backfilled memory entry does not
\* outlive the sqlite row it was read from.
fetch_game_details_capping_backfill(cfg, cache, rows, sqlite, app_id, t_mono, t_wall, api, get_io, set_io, evict_key) ==
    LET mem == get_from_memory_cache(cache, app_id, t_mono)
        dbc == get_from_database_cache(sqlite, rows, app_id, t_wall, get_io)
        hit == RowOf(rows, STEAM_GAME_DETAILS_NAMESPACE, AppKey(app_id))
        left == IF hit = {} THEN cfg.memory_cache_ttl
                ELSE LET row == CHOOSE r \in hit : TRUE
                     IN  IF row.expires_at = None
                            \/ Unwrap(row.expires_at) - t_wall >= cfg.memory_cache_ttl
                         THEN cfg.memory_cache_ttl
                         ELSE Unwrap(row.expires_at) - t_wall
        put(value, ttl) == put_to_memory_cache(mem.cache, cfg.memory_cache_capacity,
                                               ttl, app_id, value, t_mono, evict_key)
    IN  IF IsSome(mem.value)
        THEN [ok |-> TRUE, value |-> mem.value, cache |-> mem.cache, rows |-> rows,
              tier |-> "memory"]
        ELSE IF IsSome(dbc.value)
        THEN [ok |-> TRUE, value |-> dbc.value, cache |-> put(Unwrap(dbc.value), left),
              rows |-> dbc.rows, tier |-> "database"]
        ELSE IF ~api.ok
        THEN [ok |-> FALSE, value |-> None, cache |-> mem.cache, rows |-> dbc.rows,
              tier |-> "api"]
        ELSE IF api.details = None
        THEN [ok |-> TRUE, value |-> None, cache |-> mem.cache, rows |-> dbc.rows,
              tier |-> "api"]
        ELSE [ok |-> TRUE, value |-> api.details,
              cache |-> put(Unwrap(api.details), cfg.memory_cache_ttl),
              rows |-> put_to_database_cache(sqlite, dbc.rows, cfg.db_cache_ttl_seconds,
                                             app_id, Unwrap(api.details), t_wall, set_io),
              tier |-> "api"]

\* SteamClient::fetch_game_details: the result, the map and the table
\* afterwards, and which tiers were consulted.  api is the answer the store
\* API gives if it is asked.
fetch_game_details(cfg, cache, rows, sqlite, app_id, t_mono, t_wall, api, get_io, set_io, evict_key) ==
    LET mem == get_from_memory_cache(cache, app_id, t_mono)
        dbc == get_from_database_cache(sqlite, rows, app_id, t_wall, get_io)
        put(value) == put_to_memory_cache(mem.cache, cfg.memory_cache_capacity,
                                          cfg.memory_cache_ttl, app_id, value, t_mono,
                                          evict_key)
    IN  IF IsSome(mem.value)
        THEN [ok |-> TRUE, value |-> mem.value, cache |-> mem.cache, rows |-> rows,
              tier |-> "memory"]
        ELSE IF IsSome(dbc.value)
        THEN [ok |-> TRUE, value |-> dbc.value, cache |-> put(Unwrap(dbc.value)),
              rows |-> dbc.rows, tier |-> "database"]
        ELSE IF ~api.ok
        THEN [ok |-> FALSE, value |-> None, cache |-> mem.cache, rows |-> dbc.rows,
              tier |-> "api"]
        ELSE IF api.details = None
        THEN [ok |-> TRUE, value |-> None, cache |-> mem.cache, rows |-> dbc.rows,
              tier |-> "api"]
        ELSE [ok |-> TRUE, value |-> api.details, cache |-> put(Unwrap(api.details)),
              rows |-> put_to_database_cache(sqlite, dbc.rows, cfg.db_cache_ttl_seconds,
                                             app_id, Unwrap(api.details), t_wall, set_io),
              tier |-> "api"]

(***************************************************************************)
(* state_cache.rs.  A HashMap<String, StatusRecord> is a function from the *)
(* keys to Option<status>; StatusRecord.updated_at is written but never    *)
(* read back by the program and is left out.                               *)
(***************************************************************************)
STATUS_CACHE_NAMESPACE == "status.last"

\* The tracked identity.
UserId == "42"
\* The keys make_status_cache_key can produce for it.
StatusKeys == {make_status_cache_key(UserId, None)} \cup
              {make_status_cache_key(UserId, Some(g)) : g \in GuildIds}

EmptyMap == [k \in StatusKeys |-> None]

\* serde_json::to_string_pretty(StatusCacheFile {version: 1, records}).
SerializeFile(records) ==
    [version |-> 1,
     records |-> [k \in StatusKeys |->
                    IF IsSome(records[k]) THEN Some(StatusToString(Unwrap(records[k])))
                    ELSE None]]

\* read_file: the records of the file, or the empty map when it is absent.
\* Every file the program writes parses.
read_file(f) ==
    IF f = None THEN EmptyMap
    ELSE [k \in StatusKeys |->
            IF IsSome(Unwrap(f).records[k])
            THEN StatusFromString(Unwrap(Unwrap(f).records[k]))
            ELSE None]

\* How write_file can end: every step succeeds; a step before the removal of
\* the old file fails (create_dir_all, fs::write of the temp file,
\* fs::remove_file); fs::rename fails after the old file was removed.
WriteOutcomes == {"ok", "fail_before_remove", "fail_rename"}
IoOutcomes == {"ok", "err"}

\* write_file: the file at path afterwards.
write_file(f, records, outcome) ==
    CASE outcome = "ok" -> Some(SerializeFile(records))
      [] outcome = "fail_before_remove" -> f
      [] outcome = "fail_rename" -> None

\* Variant of set_status that writes the new record alone to the file.
set_status_only_key(st, f, rows, sqlite, key, status, t, file_io, db_io) ==
    LET snapshot == [st EXCEPT ![key] = Some(status)]
        written == write_file(f, [EmptyMap EXCEPT ![key] = Some(status)], file_io)
    IN  IF file_io # "ok"
        THEN [ok |-> FALSE, state |-> snapshot, file |-> written, rows |-> rows]
        ELSE [ok |-> TRUE, state |-> snapshot, file |-> written,
              rows |-> set_json(sqlite, rows, STATUS_CACHE_NAMESPACE, key, status,
                                None, t, db_io).rows]

\* Variant of set_status that updates the memory map and the sqlite tier
\* and leaves the file alone.
set_status_skipping_file(st, f, rows, sqlite, key, status, t, file_io, db_io) ==
    LET snapshot == [st EXCEPT ![key] = Some(status)]
    IN  IF file_io # "ok"
        THEN [ok |-> FALSE, state |-> snapshot, file |-> f, rows |-> rows]
        ELSE [ok |-> TRUE, state |-> snapshot, file |-> f,
              rows |-> set_json(sqlite, rows, STATUS_CACHE_NAMESPACE, key, status,
                                None, t, db_io).rows]

\* Variant of set_status that reports a failed sqlite write as its own failure.
set_status_strict(st, f, rows, sqlite, key, status, t, file_io, db_io) ==
    LET snapshot == [st EXCEPT ![key] = Some(status)]
        written == write_file(f, snapshot, file_io)
        saved == set_json(sqlite, rows, STATUS_CACHE_NAMESPACE, key, status, None, t, db_io)
    IN  IF file_io # "ok"
        THEN [ok |-> FALSE, state |-> snapshot, file |-> written, rows |-> rows]
        ELSE [ok |-> saved.ok, state |-> snapshot, file |-> written, rows |-> saved.rows]

\* PersistentStatusCache::set_status.
set_status(st, f, rows, sqlite, key, status, t, file_io, db_io) ==
    LET snapshot == [st EXCEPT ![key] = Some(status)]
        written == write_file(f, snapshot, file_io)
    IN  IF file_io # "ok"
        THEN [ok |-> FALSE, state |-> snapshot, file |-> written, rows |-> rows]
        ELSE [ok |-> TRUE, state |-> snapshot, file |-> written,
              rows |-> set_json(sqlite, rows, STATUS_CACHE_NAMESPACE, key, status,
                                None, t, db_io).rows]

\* Variant of get_status that returns the status of the sqlite tier without
\* inserting it into the memory map.
get_status_without_backfill(st, rows, sqlite, key, t, db_io) ==
    IF IsSome(st[key]) THEN [status |-> st[key], state |-> st, rows |-> rows]
    ELSE LET got == get_json(sqlite, rows, STATUS_CACHE_NAMESPACE, key, t, db_io)
         IN  [status |-> IF got.ok THEN got.value ELSE None, state |-> st,
              rows |-> got.rows]

\* PersistentStatusCache::get_status.
get_status(st, rows, sqlite, key, t, db_io) ==
    IF IsSome(st[key]) THEN [status |-> st[key], state |-> st, rows |-> rows]
    ELSE LET got == get_json(sqlite, rows, STATUS_CACHE_NAMESPACE, key, t, db_io)
             db_status == IF got.ok THEN got.value ELSE None
         IN  IF db_status = None
             THEN [status |-> None, state |-> st, rows |-> got.rows]
             ELSE [status |-> db_status, state |-> [st EXCEPT ![key] = db_status],
                   rows |-> got.rows]

(***************************************************************************)
(* Configuration and clock                                                 *)
(***************************************************************************)
\* interval_minutes of the reminder settings (the value of the repository's
\* own test and of the 1800 s scenario).
IntervalMinutes == 30

\* ReminderSettings::interval_seconds: the interval in seconds.
interval_seconds(rem) == rem.interval_minutes * 60

\* 2^64 of the `as u64` cast, scaled down to 2^30 to fit the checker's
\* integers.
U64Modulus == 1073741824

\* The instants the wall clock is read at: the second before the first
\* interval boundary, and each interval boundary.
ClockReadings ==
    {interval_seconds(reminder) - 1} \cup
    {k * interval_seconds(reminder) : k \in 0..MaxIntervals}

\* The guild run() tracks (settings.guild_id) and the key it persists under.
TargetGuildId == Some("99")
status_cache_key == make_status_cache_key(UserId, TargetGuildId)

\* last_op when the last step was not a handler whose locals are recorded.
NoOp ==
    [op |-> "none", key |-> None, previous |-> None, status |-> None,
     activity_changed |-> FALSE, repeat |-> FALSE, sent |-> FALSE,
     sequence |-> 0, ok |-> TRUE, tier |-> "none", value |-> None,
     swept |-> {}, evicted |-> {}, event |-> None, initial |-> FALSE]

NoAnn == [pos |-> 0, done |-> FALSE]
\* The invocations of handle_presence_update that can be running at once:
\* serenity spawns a task for every gateway event it dispatches.
HandlerIds == {"h1", "h2"}

\* The callers of set_status that can be inside it at once.
WriterIds == {"w1", "w2"}

\* A caller that is not inside set_status.  One that is records where it is
\* (stage), its arguments and the clone of the map it took under the lock.
IdleWriter == [stage |-> "idle", key |-> None, status |-> None, snapshot |-> None]

\* An invocation that is not running.  A running one records where it is
\* (stage), the arguments it was called with (input) and the locals of its
\* locked section; event is the event it builds when it does not return early.
IdleTask ==
    [stage |-> "idle", input |-> None, previous |-> None, status_changed |-> FALSE,
     activity_changed |-> FALSE, event |-> None]

\* No invocation of the handler is running, the reminder loop holds no event,
\* and nobody holds the MutexGuard of runtime_state.  ticker is the event the
\* reminder loop has built and not yet sent; order lists the producers that
\* hold an unsent event in the order in which their locked sections ended;
\* lock names the task holding the guard; written is the input of the
\* invocation whose locked section was the last to end; failed says whether
\* a persist_status of an invocation, or a set_status followed step by step,
\* has returned an Err.  writers are the calls of set_status followed step by
\* step and temp is the file at path.with_extension("tmp").
NoFlight ==
    [handlers |-> [h \in HandlerIds |-> IdleTask], ticker |-> None, order |-> <<>>,
     lock |-> "none", written |-> None, failed |-> FALSE,
     writers |-> [c \in WriterIds |-> IdleWriter], temp |-> None]
\* track says whether the specification follows process lifetimes; ann and
\* pre are recorded only then.
NoPre ==
    [track |-> FALSE, valid |-> FALSE, status |-> None, fp |-> None,
     announced |-> FALSE, key |-> None, fired |-> {}]

\* Variant of build_initial_runtime_state that anchors every recovered status
\* whenever reminders are enabled.
build_initial_runtime_state_anchoring_always(initial_status, rich_presence_only, rem, t) ==
    [current_status |-> initial_status,
     current_guild_id |-> None,
     current_activity |-> None,
     current_activity_fingerprint |-> None,
     reminder_anchor |->
        IF rem.enabled /\ IsSome(initial_status)
        THEN Some([key |-> <<"status", StatusToString(Unwrap(initial_status))>>,
                   started_at_unix |-> t, last_sequence |-> 0])
        ELSE None]

\* Variant of build_initial_runtime_state that does not take the recovered
\* status into the state.
build_initial_runtime_state_without_status(initial_status, rich_presence_only, rem, t) ==
    [current_status |-> None,
     current_guild_id |-> None,
     current_activity |-> None,
     current_activity_fingerprint |-> None,
     reminder_anchor |-> None]

build_initial_runtime_state(initial_status, rich_presence_only, rem, t) ==
    [current_status |-> initial_status,
     current_guild_id |-> None,
     current_activity |-> None,
     current_activity_fingerprint |-> None,
     reminder_anchor |->
        IF rem.enabled /\ ~rem.steam_only /\ ~rich_presence_only /\ IsSome(initial_status)
        THEN Some([key |-> <<"status", StatusToString(Unwrap(initial_status))>>,
                   started_at_unix |-> t, last_sequence |-> 0])
        ELSE None]

AnchorKey(rs) ==
    IF IsSome(rs.reminder_anchor) THEN Some(Unwrap(rs.reminder_anchor).key) ELSE None

\* main() and run() of a first start (no status file, an empty sqlite
\* table), for the configurations of the given sets.
Start(settings_set, reminder_set, store_set, track) ==
    /\ settings \in settings_set
    /\ reminder \in reminder_set
    /\ store_cfg \in store_set
    /\ now = 0
    /\ runtime_state = build_initial_runtime_state(None, settings.rich_presence_only,
                                                   reminder, 0)
    /\ chan = <<>>
    /\ state = EmptyMap
    /\ file = None
    /\ db = {}
    /\ last_op = NoOp
    /\ fired = {}
    /\ ann = NoAnn
    /\ pre = [NoPre EXCEPT !.track = track]
    /\ phase = "running"

\* mpsc::channel with the given capacity.
StartChannel(capacity) ==
    /\ channel_capacity = capacity
    /\ in_flight = NoFlight

\* SteamSettings as validate() accepts them (every field greater than 0).
AllSteamSettings ==
    [memory_cache_capacity : 1..MaxCapacity, memory_cache_ttl : {1},
     db_cache_ttl_seconds : {2}, description_max_chars : 1..MaxDescriptionChars]

\* SteamClient::new with one of the given settings.
StartSteam(steam_set) ==
    /\ steam_cfg \in steam_set
    /\ memory_cache = EmptyMemoryCache
    /\ instant = 0

\* The settings of the specifications that do not look anything up.
SmallestSteam ==
    {c \in AllSteamSettings :
        c.memory_cache_capacity = 1 /\ c.description_max_chars = 1}

AllSettings ==
    [emit_initial_status : BOOLEAN, emit_on_activity_change : BOOLEAN,
     rich_presence_only : BOOLEAN]
AllReminders ==
    [enabled : BOOLEAN, interval_minutes : {IntervalMinutes}, steam_only : BOOLEAN]
AllStores == [state_cache : BOOLEAN, sqlite : BOOLEAN]

(***************************************************************************)
(* PresenceEventHandler::handle_presence_update, with persist_status       *)
(***************************************************************************)
\* activity_changed of the locked section.
activity_changed_from(current_fingerprint, activity_fingerprint) ==
    IF IsSome(current_fingerprint)
    THEN Unwrap(current_fingerprint) # activity_fingerprint
    ELSE activity_fingerprint # <<>>

\* Variant of next_reminder_anchor that restarts the anchor on every
\* observation.
next_reminder_anchor_restarted(anchor, next_anchor_key, t) ==
    IF IsSome(next_anchor_key)
    THEN Some([key |-> Unwrap(next_anchor_key), started_at_unix |-> t,
               last_sequence |-> 0])
    ELSE None

\* The anchor after the comparison of the stored key with the derived one.
next_reminder_anchor(anchor, next_anchor_key, t) ==
    LET current_anchor_key == IF IsSome(anchor) THEN Some(Unwrap(anchor).key) ELSE None
    IN  IF current_anchor_key # next_anchor_key
        THEN IF IsSome(next_anchor_key)
             THEN Some([key |-> Unwrap(next_anchor_key), started_at_unix |-> t,
                        last_sequence |-> 0])
             ELSE None
        ELSE anchor

\* Variant of write_presence that leaves current_status as it was.
write_presence_keeps_status(rs, next_status, guild_id, activity, activity_fingerprint, anchor) ==
    [current_status |-> rs.current_status,
     current_guild_id |-> guild_id,
     current_activity |-> activity,
     current_activity_fingerprint |-> Some(activity_fingerprint),
     reminder_anchor |-> anchor]

\* The four assignments to the runtime state, after the anchor's.
write_presence(rs, next_status, guild_id, activity, activity_fingerprint, anchor) ==
    [current_status |-> Some(next_status),
     current_guild_id |-> guild_id,
     current_activity |-> activity,
     current_activity_fingerprint |-> Some(activity_fingerprint),
     reminder_anchor |-> anchor]

Observe(guild_id, raw_status, activities) ==
    LET next_status == normalize_status(raw_status)
        activity == extract_activity_context(activities)
        activity_fingerprint == build_activity_fingerprint(activities)
        has_activity == activity_fingerprint # <<>>
        previous == runtime_state.current_status
        status_changed == previous # Some(next_status)
        activity_changed ==
            activity_changed_from(runtime_state.current_activity_fingerprint,
                                  activity_fingerprint)
        next_anchor_key == reminder_anchor_key(reminder, settings.rich_presence_only,
                                               next_status, activity)
        replaced == AnchorKey(runtime_state) # next_anchor_key
        next_anchor == next_reminder_anchor(runtime_state.reminder_anchor,
                                            next_anchor_key, now)
        should_emit ==
            should_emit_presence_event(status_changed, activity_changed,
                                       settings.emit_on_activity_change,
                                       settings.rich_presence_only, has_activity,
                                       settings.emit_initial_status, IsSome(previous))
        persists == status_changed /\ store_cfg.state_cache
        stored(file_io, db_io) ==
            set_status(state, file, db, store_cfg.sqlite, status_cache_key,
                       next_status, now, file_io, db_io)
        sends == ~(previous = None /\ ~settings.emit_initial_status) /\ should_emit
        event == NewEvent(guild_id, previous, next_status, activity, None)
        presence_same ==
            /\ runtime_state.current_status = Some(next_status)
            /\ runtime_state.current_activity_fingerprint = Some(activity_fingerprint)
    IN  /\ phase = "running"
        /\ sends => Len(chan) < channel_capacity
        /\ runtime_state' = write_presence(runtime_state, next_status, guild_id, activity,
                                           activity_fingerprint, next_anchor)
        /\ \E file_io \in IF persists THEN WriteOutcomes ELSE {"ok"},
              db_io \in IF persists /\ store_cfg.sqlite THEN IoOutcomes ELSE {"ok"} :
                /\ state' = IF persists THEN stored(file_io, db_io).state ELSE state
                /\ file' = IF persists THEN stored(file_io, db_io).file ELSE file
                /\ db' = IF persists THEN stored(file_io, db_io).rows ELSE db
                /\ last_op' =
                       [NoOp EXCEPT !.op = "observe", !.previous = previous,
                                    !.status = Some(next_status),
                                    !.activity_changed = activity_changed,
                                    !.repeat = presence_same, !.sent = sends,
                                    !.ok = IF persists THEN stored(file_io, db_io).ok
                                           ELSE TRUE,
                                    !.initial =
                                       runtime_state.current_activity_fingerprint = None]
        /\ chan' = IF sends THEN Append(chan, event) ELSE chan
        /\ fired' = IF replaced THEN {} ELSE fired
        /\ ann' = IF ~pre.track THEN ann
                  ELSE IF sends THEN [pos |-> Len(chan) + 1, done |-> FALSE]
                  ELSE IF presence_same THEN ann ELSE NoAnn
        /\ pre' = IF pre.valid /\ next_anchor_key = pre.key
                  THEN [pre EXCEPT !.announced = FALSE]
                  ELSE [pre EXCEPT !.announced = FALSE, !.key = None, !.fired = {}]
        /\ UNCHANGED <<settings, reminder, store_cfg, now>>
        /\ UNCHANGED <<steam_cfg, memory_cache, instant, phase, channel_capacity, in_flight>>

(***************************************************************************)
(* run_reminder_loop: one iteration                                        *)
(***************************************************************************)
\* Utc::now().timestamp().saturating_sub(started_at_unix) as u64: the
\* subtraction saturates at the i64 limits only, and the cast of a negative
\* difference wraps.
Elapsed(t, started_at_unix) ==
    LET diff == t - started_at_unix
    IN  IF diff >= 0 THEN diff ELSE U64Modulus + diff

\* Variant of reminder_sequence that rounds up.
reminder_sequence_rounded_up(elapsed, interval) == (elapsed + interval - 1) \div interval

reminder_sequence(elapsed, interval) == elapsed \div interval

\* Variant of should_fire without the comparison to last_sequence.
should_fire_nonzero(sequence, last_sequence) == sequence # 0

should_fire(sequence, last_sequence) == ~(sequence = 0 \/ sequence <= last_sequence)

ReminderTick ==
    LET idle == runtime_state.current_status = None \/ runtime_state.reminder_anchor = None
        anchor == Unwrap(runtime_state.reminder_anchor)
        elapsed == Elapsed(now, anchor.started_at_unix)
        sequence == IF idle THEN 0
                    ELSE reminder_sequence(elapsed, interval_seconds(reminder))
        fires == ~idle /\ should_fire(sequence, anchor.last_sequence)
        event == NewEvent(runtime_state.current_guild_id, None,
                          Unwrap(runtime_state.current_status),
                          runtime_state.current_activity,
                          Some([elapsed_seconds |-> sequence * interval_seconds(reminder),
                                interval_seconds |-> interval_seconds(reminder),
                                sequence |-> sequence]))
    IN  /\ reminder.enabled
        /\ phase = "running"
        /\ fires => Len(chan) < channel_capacity
        /\ runtime_state' =
               IF fires
               THEN [runtime_state EXCEPT
                        !.reminder_anchor = Some([anchor EXCEPT !.last_sequence = sequence])]
               ELSE runtime_state
        /\ chan' = IF fires THEN Append(chan, event) ELSE chan
        /\ last_op' = [NoOp EXCEPT !.op = "tick", !.sequence = sequence, !.sent = fires]
        /\ fired' = IF fires THEN fired \cup {sequence} ELSE fired
        /\ UNCHANGED <<settings, reminder, store_cfg, now, state, file, db, ann, pre>>
        /\ UNCHANGED <<steam_cfg, memory_cache, instant, phase, channel_capacity, in_flight>>

(***************************************************************************)
(* The producers step by step.  An invocation of handle_presence_update    *)
(* takes the lock and writes the anchor and the status (HandlerLock),      *)
(* writes the rest of the state and drops the guard (HandlerDecide), calls *)
(* persist_status (HandlerPersist) and sends its event (HandlerSend).  An  *)
(* iteration of run_reminder_loop runs its locked section (TickDecide) and *)
(* sends its event (TickSend).  The tasks run on the multi-thread runtime  *)
(* of #[tokio::main], so their steps interleave freely.                    *)
(***************************************************************************)
\* Variant of lock_free that lets a task in whoever holds the guard.
lock_free_ignoring_holder(holder) == TRUE

\* runtime_state.lock().await completes when no task holds the guard.
lock_free(holder) == holder = "none"

\* Variant of lock_after_section in which a task that still has to persist or
\* to send keeps the guard.
lock_kept_while_pending(task, pending) == IF pending THEN task ELSE "none"

\* The guard is dropped at the end of the block of the locked section,
\* whatever the task does next.
lock_after_section(task, pending) == "none"

\* The producers holding an unsent event, without the one that has sent.
Without(order, name) ==
    IF \A i \in 1..Len(order) : order[i] # name THEN order
    ELSE LET i == CHOOSE k \in 1..Len(order) : order[k] = name
         IN  SubSeq(order, 1, i - 1) \o SubSeq(order, i + 1, Len(order))

\* handle_presence_update from its start to state.current_status =
\* Some(next_status): the guard is taken, previous, status_changed and
\* activity_changed are read, the anchor and the status are written.
HandlerLock(h, guild_id, raw_status, activities) ==
    LET next_status == normalize_status(raw_status)
        activity == extract_activity_context(activities)
        activity_fingerprint == build_activity_fingerprint(activities)
        previous == runtime_state.current_status
        next_anchor_key == reminder_anchor_key(reminder, settings.rich_presence_only,
                                               next_status, activity)
    IN  /\ phase = "running"
        /\ ~pre.track
        /\ in_flight.handlers[h].stage = "idle"
        /\ lock_free(in_flight.lock)
        /\ runtime_state' =
               [runtime_state EXCEPT
                   !.reminder_anchor = next_reminder_anchor(runtime_state.reminder_anchor,
                                                            next_anchor_key, now),
                   !.current_status = Some(next_status)]
        /\ in_flight' =
               [in_flight EXCEPT
                   !.lock = h,
                   !.handlers[h] =
                      [stage |-> "locked",
                       input |-> Some([guild_id |-> guild_id, next_status |-> next_status,
                                       activity |-> activity,
                                       activity_fingerprint |-> activity_fingerprint]),
                       previous |-> previous,
                       status_changed |-> previous # Some(next_status),
                       activity_changed |->
                          activity_changed_from(runtime_state.current_activity_fingerprint,
                                                activity_fingerprint),
                       event |-> None]]
        /\ fired' = IF AnchorKey(runtime_state) # next_anchor_key THEN {} ELSE fired
        /\ last_op' = [NoOp EXCEPT !.op = "handler_lock", !.previous = previous,
                                   !.status = Some(next_status)]
        /\ UNCHANGED <<settings, reminder, store_cfg, now, chan, state, file, db, ann, pre>>
        /\ UNCHANGED <<steam_cfg, memory_cache, instant, phase, channel_capacity>>

\* The rest of the locked section: guild, activity and fingerprint are
\* written, should_emit is computed and the guard is dropped.  The two early
\* returns and the event depend on the locals alone, so what the invocation
\* will do after persist_status is settled here.
HandlerDecide(h) ==
    LET task == in_flight.handlers[h]
        input == Unwrap(task.input)
        should_emit ==
            should_emit_presence_event(task.status_changed, task.activity_changed,
                                       settings.emit_on_activity_change,
                                       settings.rich_presence_only,
                                       input.activity_fingerprint # <<>>,
                                       settings.emit_initial_status,
                                       IsSome(task.previous))
        persists == task.status_changed /\ store_cfg.state_cache
        sends == ~(task.previous = None /\ ~settings.emit_initial_status) /\ should_emit
        event == NewEvent(input.guild_id, task.previous, input.next_status,
                          input.activity, None)
    IN  /\ phase = "running"
        /\ task.stage = "locked"
        /\ runtime_state' =
               [runtime_state EXCEPT
                   !.current_guild_id = input.guild_id,
                   !.current_activity = input.activity,
                   !.current_activity_fingerprint = Some(input.activity_fingerprint)]
        /\ in_flight' =
               [in_flight EXCEPT
                   !.lock = lock_after_section(h, persists \/ sends),
                   !.order = IF sends THEN Append(@, h) ELSE @,
                   !.written = task.input,
                   !.handlers[h] =
                      IF persists \/ sends
                      THEN [task EXCEPT !.stage = IF persists THEN "persist" ELSE "send",
                                        !.event = IF sends THEN Some(event) ELSE None]
                      ELSE IdleTask]
        /\ last_op' = [NoOp EXCEPT !.op = "handler_decide", !.previous = task.previous,
                                   !.status = Some(input.next_status),
                                   !.activity_changed = task.activity_changed,
                                   !.sent = sends]
        /\ UNCHANGED <<settings, reminder, store_cfg, now, chan, state, file, db, fired,
                       ann, pre>>
        /\ UNCHANGED <<steam_cfg, memory_cache, instant, phase, channel_capacity>>

\* if status_changed { self.persist_status(next_status).await }: set_status
\* runs and its Err is logged.
HandlerPersist(h) ==
    LET task == in_flight.handlers[h]
        input == Unwrap(task.input)
    IN  /\ phase = "running"
        /\ task.stage = "persist"
        /\ \E file_io \in WriteOutcomes,
              db_io \in IF store_cfg.sqlite THEN IoOutcomes ELSE {"ok"} :
              \E stored \in {set_status(state, file, db, store_cfg.sqlite,
                                         status_cache_key, input.next_status, now,
                                         file_io, db_io)} :
                /\ state' = stored.state
                /\ file' = stored.file
                /\ db' = stored.rows
                /\ last_op' = [NoOp EXCEPT !.op = "handler_persist",
                                           !.key = Some(status_cache_key),
                                           !.status = Some(input.next_status),
                                           !.ok = stored.ok]
                /\ in_flight' =
                       [in_flight EXCEPT
                           !.failed = @ \/ ~stored.ok,
                           !.handlers[h] = IF task.event = None THEN IdleTask
                                           ELSE [task EXCEPT !.stage = "send"]]
        /\ UNCHANGED <<settings, reminder, store_cfg, now, runtime_state, chan, fired,
                       ann, pre>>
        /\ UNCHANGED <<steam_cfg, memory_cache, instant, phase, channel_capacity>>

\* self.tx.send(event).await of handle_presence_update: it completes when the
\* channel has room.
HandlerSend(h) ==
    LET task == in_flight.handlers[h]
    IN  /\ phase = "running"
        /\ task.stage = "send"
        /\ Len(chan) < channel_capacity
        /\ chan' = Append(chan, Unwrap(task.event))
        /\ in_flight' = [in_flight EXCEPT !.handlers[h] = IdleTask,
                                          !.order = Without(@, h)]
        /\ last_op' = [NoOp EXCEPT !.op = "handler_send", !.event = task.event,
                                   !.sent = TRUE]
        /\ UNCHANGED <<settings, reminder, store_cfg, now, runtime_state, state, file, db,
                       fired, ann, pre>>
        /\ UNCHANGED <<steam_cfg, memory_cache, instant, phase, channel_capacity>>

\* One iteration of run_reminder_loop up to maybe_event: the locked section.
\* The loop awaits its tx.send before the next tick.
TickDecide ==
    LET idle == runtime_state.current_status = None \/ runtime_state.reminder_anchor = None
        anchor == Unwrap(runtime_state.reminder_anchor)
        elapsed == Elapsed(now, anchor.started_at_unix)
        sequence == IF idle THEN 0
                    ELSE reminder_sequence(elapsed, interval_seconds(reminder))
        fires == ~idle /\ should_fire(sequence, anchor.last_sequence)
        event == NewEvent(runtime_state.current_guild_id, None,
                          Unwrap(runtime_state.current_status),
                          runtime_state.current_activity,
                          Some([elapsed_seconds |-> sequence * interval_seconds(reminder),
                                interval_seconds |-> interval_seconds(reminder),
                                sequence |-> sequence]))
    IN  /\ reminder.enabled
        /\ phase = "running"
        /\ in_flight.ticker = None
        /\ lock_free(in_flight.lock)
        /\ runtime_state' =
               IF fires
               THEN [runtime_state EXCEPT
                        !.reminder_anchor = Some([anchor EXCEPT !.last_sequence = sequence])]
               ELSE runtime_state
        /\ in_flight' =
               IF fires
               THEN [in_flight EXCEPT !.ticker = Some(event),
                                      !.order = Append(@, "ticker"),
                                      !.lock = lock_after_section("ticker", TRUE)]
               ELSE [in_flight EXCEPT !.lock = lock_after_section("ticker", FALSE)]
        /\ last_op' = [NoOp EXCEPT !.op = "tick_decide", !.sequence = sequence,
                                   !.sent = fires,
                                   !.event = IF fires THEN Some(event) ELSE None]
        /\ fired' = IF fires THEN fired \cup {sequence} ELSE fired
        /\ UNCHANGED <<settings, reminder, store_cfg, now, chan, state, file, db, ann, pre>>
        /\ UNCHANGED <<steam_cfg, memory_cache, instant, phase, channel_capacity>>

\* tx.send(event).await of run_reminder_loop.
TickSend ==
    /\ phase = "running"
    /\ in_flight.ticker # None
    /\ Len(chan) < channel_capacity
    /\ chan' = Append(chan, Unwrap(in_flight.ticker))
    /\ in_flight' = [in_flight EXCEPT !.ticker = None, !.order = Without(@, "ticker")]
    /\ last_op' = [NoOp EXCEPT !.op = "tick_send",
                               !.event = in_flight.ticker, !.sent = TRUE]
    /\ UNCHANGED <<settings, reminder, store_cfg, now, runtime_state, state, file, db,
                   fired, ann, pre>>
    /\ UNCHANGED <<steam_cfg, memory_cache, instant, phase, channel_capacity>>

(***************************************************************************)
(* run(): one iteration of the send loop                                   *)
(***************************************************************************)
\* Variant of the send loop that takes the newest event of the channel.
Deliver_newest_first(sink_io) ==
    /\ phase \in {"running", "draining"}
    /\ chan # <<>>
    /\ chan' = SubSeq(chan, 1, Len(chan) - 1)
    /\ ann' = IF ann.pos = 0 \/ ~pre.track THEN ann
              ELSE IF ann.pos = 1 THEN [pos |-> 0, done |-> sink_io = "ok"]
              ELSE [ann EXCEPT !.pos = ann.pos - 1]
    /\ last_op' = [NoOp EXCEPT !.op = "deliver", !.event = Some(chan[Len(chan)])]
    /\ UNCHANGED <<settings, reminder, store_cfg, now, runtime_state, state, file, db,
                   fired, pre>>
    /\ UNCHANGED <<steam_cfg, memory_cache, instant, phase, channel_capacity, in_flight>>

\* rx.recv() gives the oldest event of the channel and sender.send is awaited
\* for it; last_op.event is the event the sink was called with.
Deliver(sink_io) ==
    /\ phase \in {"running", "draining"}
    /\ chan # <<>>
    /\ chan' = Tail(chan)
    /\ ann' = IF ann.pos = 0 \/ ~pre.track THEN ann
              ELSE IF ann.pos = 1 THEN [pos |-> 0, done |-> sink_io = "ok"]
              ELSE [ann EXCEPT !.pos = ann.pos - 1]
    /\ last_op' = [NoOp EXCEPT !.op = "deliver", !.event = Some(Head(chan))]
    /\ UNCHANGED <<settings, reminder, store_cfg, now, runtime_state, state, file, db,
                   fired, pre>>
    /\ UNCHANGED <<steam_cfg, memory_cache, instant, phase, channel_capacity, in_flight>>

(***************************************************************************)
(* Shutdown                                                                *)
(***************************************************************************)
\* client.start() returns: run() aborts the reminder loop, drops tx and the
\* client (with the handler's tx) and awaits the send loop.
ClientExit ==
    /\ phase = "running"
    /\ phase' = "draining"
    /\ last_op' = [NoOp EXCEPT !.op = "client_exit"]
    /\ UNCHANGED <<settings, reminder, store_cfg, now, runtime_state, chan, state, file,
                   db, fired, ann, pre>>
    /\ UNCHANGED <<steam_cfg, memory_cache, instant, channel_capacity, in_flight>>

\* rx.recv() returns None once every sender is dropped and the channel is
\* empty: the send loop ends and run() returns.
DrainEnd ==
    /\ phase = "draining"
    /\ chan = <<>>
    /\ phase' = "exited"
    /\ last_op' = [NoOp EXCEPT !.op = "drain_end"]
    /\ UNCHANGED <<settings, reminder, store_cfg, now, runtime_state, chan, state, file,
                   db, fired, ann, pre>>
    /\ UNCHANGED <<steam_cfg, memory_cache, instant, channel_capacity, in_flight>>

\* ctrl_c completes first in main.rs's select!: the future of discord::run is
\* dropped, run() returns Ok and main() returns, which shuts the runtime down
\* with the spawned send loop and reminder loop wherever they are.  The
\* events still in the channel are dropped with it.
ShutdownSignal ==
    /\ phase \in {"running", "draining"}
    /\ phase' = "exited"
    /\ chan' = <<>>
    /\ last_op' = [NoOp EXCEPT !.op = "shutdown_signal",
                               !.event = IF chan = <<>> THEN None ELSE Some(Head(chan))]
    /\ UNCHANGED <<settings, reminder, store_cfg, now, runtime_state, state, file,
                   db, fired, ann, pre>>
    /\ UNCHANGED <<steam_cfg, memory_cache, instant, channel_capacity>>
    /\ in_flight' = NoFlight

(***************************************************************************)
(* The process dies (crash or shutdown) and main() runs again:             *)
(* PersistentStatusCache::load, then run() up to the construction of the   *)
(* runtime state.  Events still in the channel die with the process.       *)
(***************************************************************************)
ProcessRestart ==
    LET loaded == IF store_cfg.state_cache THEN read_file(file) ELSE EmptyMap
        got(db_io) ==
            get_status(loaded, db, store_cfg.sqlite, status_cache_key, now, db_io)
        observed == IsSome(runtime_state.current_activity_fingerprint)
        key == AnchorKey(runtime_state)
        same_period == pre.valid /\ pre.key = key
        dying == IF ~pre.track THEN pre
                 ELSE IF observed
                 THEN [track |-> TRUE, valid |-> TRUE,
                       status |-> runtime_state.current_status,
                       fp |-> runtime_state.current_activity_fingerprint,
                       announced |-> ann.done,
                       key |-> key,
                       fired |-> IF same_period THEN pre.fired \cup fired ELSE fired]
                 ELSE [pre EXCEPT !.fired = IF same_period THEN pre.fired \cup fired
                                            ELSE pre.fired]
    IN  /\ \E db_io \in IF store_cfg.state_cache /\ store_cfg.sqlite
                          THEN IoOutcomes ELSE {"ok"} :
              LET initial_status == IF store_cfg.state_cache THEN got(db_io).status
                                    ELSE None
                  rebuilt == build_initial_runtime_state(initial_status,
                                                         settings.rich_presence_only,
                                                         reminder, now)
              IN  /\ state' = IF store_cfg.state_cache THEN got(db_io).state ELSE EmptyMap
                  /\ db' = IF store_cfg.state_cache THEN got(db_io).rows ELSE db
                  /\ runtime_state' = rebuilt
                  /\ last_op' = [NoOp EXCEPT !.op = "restart", !.status = initial_status]
                  /\ pre' = IF AnchorKey(rebuilt) = dying.key THEN dying
                            ELSE [dying EXCEPT !.key = None, !.fired = {}]
        /\ chan' = <<>>
        /\ fired' = {}
        /\ ann' = NoAnn
        /\ UNCHANGED <<settings, reminder, store_cfg, now, file>>
        /\ UNCHANGED <<steam_cfg, instant, channel_capacity>>
        /\ in_flight' = NoFlight
        /\ memory_cache' = EmptyMemoryCache
        /\ phase' = "running"

(***************************************************************************)
(* The wall clock                                                          *)
(***************************************************************************)
ClockAdvance ==
    /\ \E t \in ClockReadings : t > now /\ now' = t
    /\ last_op' = NoOp
    /\ UNCHANGED <<settings, reminder, store_cfg, runtime_state, chan, state, file, db,
                   fired, ann, pre>>
    /\ UNCHANGED <<steam_cfg, memory_cache, instant, phase, channel_capacity, in_flight>>

\* The wall clock is stepped back (NTP correction, manual change).
ClockStepBack ==
    /\ \E t \in ClockReadings : t < now /\ now' = t
    /\ last_op' = NoOp
    /\ UNCHANGED <<settings, reminder, store_cfg, runtime_state, chan, state, file, db,
                   fired, ann, pre>>
    /\ UNCHANGED <<steam_cfg, memory_cache, instant, phase, channel_capacity, in_flight>>

GuildInputs == {TargetGuildId}

ObserveAny ==
    \E g \in GuildInputs, raw \in RawStatuses, acts \in ActivityLists :
        Observe(g, raw, acts)

DeliverAny == \E sink_io \in IoOutcomes : Deliver(sink_io)

(***************************************************************************)
(* The persistent status cache called directly, as its own test does.      *)
(***************************************************************************)
\* The statuses the direct calls store.
StoreStatuses == {"Online", "Dnd", "Unknown"}

StoreSetStatus(key, status, file_io, db_io) ==
    LET r == set_status(state, file, db, store_cfg.sqlite, key, status, now, file_io, db_io)
    IN  /\ state' = r.state
        /\ file' = r.file
        /\ db' = r.rows
        /\ last_op' = [NoOp EXCEPT !.op = "set_status", !.key = Some(key),
                                   !.status = Some(status), !.ok = r.ok]
        /\ UNCHANGED <<settings, reminder, store_cfg, now, runtime_state, chan,
                       fired, ann, pre>>
        /\ UNCHANGED <<steam_cfg, memory_cache, instant, phase, channel_capacity, in_flight>>

(***************************************************************************)
(* set_status step by step: the locked insert and clone, then write_file   *)
(* on the blocking pool (fs::write of the temp file, fs::remove_file of    *)
(* the old file, fs::rename), then the write to the sqlite tier.           *)
(***************************************************************************)
\* self.state.lock(), state.insert, state.clone(): the guard is dropped at the
\* end of the block.
SetStatusBegin(c, key, status) ==
    /\ store_cfg.state_cache
    /\ in_flight.writers[c].stage = "idle"
    /\ state' = [state EXCEPT ![key] = Some(status)]
    /\ in_flight' = [in_flight EXCEPT
                        !.writers[c] = [stage |-> "write_temp", key |-> Some(key),
                                        status |-> Some(status),
                                        snapshot |-> Some(state')]]
    /\ last_op' = [NoOp EXCEPT !.op = "set_status_begin", !.key = Some(key),
                               !.status = Some(status)]
    /\ UNCHANGED <<settings, reminder, store_cfg, now, runtime_state, chan, file, db,
                   fired, ann, pre>>
    /\ UNCHANGED <<steam_cfg, memory_cache, instant, phase, channel_capacity>>

\* write_file up to fs::write(&temp_path, json): every call writes the same
\* temp path.  An Err ends the call.
WriteTemp(c, io) ==
    LET job == in_flight.writers[c]
    IN  /\ job.stage = "write_temp"
        /\ in_flight' =
               IF io = "ok"
               THEN [in_flight EXCEPT !.temp = Some(SerializeFile(Unwrap(job.snapshot))),
                                      !.writers[c] = [job EXCEPT !.stage = "remove"]]
               ELSE [in_flight EXCEPT !.failed = TRUE, !.writers[c] = IdleWriter]
        /\ last_op' = [NoOp EXCEPT !.op = "write_temp", !.key = job.key,
                                   !.ok = (io = "ok")]
        /\ UNCHANGED <<settings, reminder, store_cfg, now, runtime_state, chan, state, file,
                       db, fired, ann, pre>>
        /\ UNCHANGED <<steam_cfg, memory_cache, instant, phase, channel_capacity>>

\* if path.exists() { fs::remove_file(path)? }.
RemoveOld(c, io) ==
    LET job == in_flight.writers[c]
    IN  /\ job.stage = "remove"
        /\ io = "err" => file # None
        /\ file' = IF io = "ok" THEN None ELSE file
        /\ in_flight' =
               IF io = "ok"
               THEN [in_flight EXCEPT !.writers[c] = [job EXCEPT !.stage = "rename"]]
               ELSE [in_flight EXCEPT !.failed = TRUE, !.writers[c] = IdleWriter]
        /\ last_op' = [NoOp EXCEPT !.op = "remove_old", !.key = job.key,
                                   !.ok = (io = "ok")]
        /\ UNCHANGED <<settings, reminder, store_cfg, now, runtime_state, chan, state, db,
                       fired, ann, pre>>
        /\ UNCHANGED <<steam_cfg, memory_cache, instant, phase, channel_capacity>>

\* fs::rename(&temp_path, path), which fails when the temp file is gone, and
\* after it the set_json of the sqlite tier, whose Err is logged; the call
\* returns.
SetStatusFinish(c, io, db_io) ==
    LET job == in_flight.writers[c]
        renamed == io = "ok" /\ in_flight.temp # None
    IN  /\ job.stage = "rename"
        /\ file' = IF renamed THEN in_flight.temp ELSE file
        /\ db' = IF renamed
                 THEN set_json(store_cfg.sqlite, db, STATUS_CACHE_NAMESPACE,
                               Unwrap(job.key), Unwrap(job.status), None, now, db_io).rows
                 ELSE db
        /\ in_flight' = [in_flight EXCEPT
                            !.temp = IF renamed THEN None ELSE @,
                            !.failed = @ \/ ~renamed,
                            !.writers[c] = IdleWriter]
        /\ last_op' = [NoOp EXCEPT !.op = "set_status_finish", !.key = job.key,
                                   !.status = job.status, !.ok = renamed]
        /\ UNCHANGED <<settings, reminder, store_cfg, now, runtime_state, chan, state,
                       fired, ann, pre>>
        /\ UNCHANGED <<steam_cfg, memory_cache, instant, phase, channel_capacity>>

StoreGetStatus(key, db_io) ==
    LET r == get_status(state, db, store_cfg.sqlite, key, now, db_io)
    IN  /\ state' = r.state
        /\ db' = r.rows
        /\ last_op' = [NoOp EXCEPT !.op = "get_status", !.key = Some(key),
                                   !.status = r.status,
                                   !.tier = IF IsSome(state[key]) THEN "memory"
                                            ELSE IF IsSome(r.status) THEN "database"
                                            ELSE "none"]
        /\ UNCHANGED <<settings, reminder, store_cfg, now, runtime_state, chan, file,
                       fired, ann, pre>>
        /\ UNCHANGED <<steam_cfg, memory_cache, instant, phase, channel_capacity, in_flight>>

\* PersistentStatusCache::load by a new process instance.
StoreLoad ==
    /\ state' = read_file(file)
    /\ last_op' = [NoOp EXCEPT !.op = "load"]
    /\ UNCHANGED <<settings, reminder, store_cfg, now, runtime_state, chan, file, db,
                   fired, ann, pre>>
    /\ UNCHANGED <<steam_cfg, memory_cache, instant, phase, channel_capacity, in_flight>>

(***************************************************************************)
(* The SteamClient, as the webhook sender calls it.                        *)
(***************************************************************************)
\* The descriptions the store API answers with.
Texts == UNION {[1..k -> Chars] : k \in 0..MaxTextLen}

\* The answers of the specification of the memoizer: an error, no result, or
\* the details of the app.
FewApiAnswers(app_id) ==
    {ApiErr, ApiNone,
     ApiDetails(app_id, <<"a", "b", "a">>, steam_cfg.description_max_chars, Some(7))}

\* The answers of the specification of the descriptions.
TextApiAnswers(app_id) ==
    {ApiDetails(app_id, text, steam_cfg.description_max_chars, None) : text \in Texts}

\* The expired entries, and the live ones, that a call found in the map and
\* left out of it.
Swept(before, after, t) ==
    {a \in StoredKeys(before) \ LiveKeys(before, t) : after[a] # before[a]}
Evicted(before, after, t) == {a \in LiveKeys(before, t) : after[a] = None}

FetchGameDetails(app_id, api, get_io, set_io) ==
    /\ \E evict_key \in KeysNext(get_from_memory_cache(memory_cache, app_id, instant).cache,
                                instant) :
          \E r \in {fetch_game_details(steam_cfg, memory_cache, db, store_cfg.sqlite,
                                       app_id, instant, now, api, get_io, set_io,
                                       evict_key)} :
              /\ memory_cache' = r.cache
              /\ db' = r.rows
              /\ last_op' = [NoOp EXCEPT !.op = "fetch", !.key = Some(AppKey(app_id)),
                                         !.ok = r.ok, !.tier = r.tier, !.value = r.value,
                                         !.swept = Swept(memory_cache, r.cache, instant),
                                         !.evicted = Evicted(memory_cache, r.cache, instant)]
    /\ UNCHANGED <<settings, reminder, store_cfg, now, runtime_state, chan, state, file,
                   fired, ann, pre, steam_cfg, instant, phase,
                   channel_capacity, in_flight>>

\* get_from_memory_cache and put_to_memory_cache as the interleaved calls of
\* concurrent fetch_game_details make them, one at a time under the write
\* lock.
MemoryGet(app_id) ==
    \E r \in {get_from_memory_cache(memory_cache, app_id, instant)} :
        /\ memory_cache' = r.cache
        /\ last_op' = [NoOp EXCEPT !.op = "memory_get", !.key = Some(AppKey(app_id)),
                                   !.value = r.value,
                                   !.swept = Swept(memory_cache, r.cache, instant)]
        /\ UNCHANGED <<settings, reminder, store_cfg, now, runtime_state, chan, state,
                       file, db, fired, ann, pre, steam_cfg, instant, phase,
                   channel_capacity, in_flight>>

MemoryPut(app_id, details) ==
    /\ \E evict_key \in KeysNext(memory_cache, instant) :
          \E cache \in {put_to_memory_cache(memory_cache, steam_cfg.memory_cache_capacity,
                                            steam_cfg.memory_cache_ttl, app_id, details,
                                            instant, evict_key)} :
              /\ memory_cache' = cache
              /\ last_op' = [NoOp EXCEPT !.op = "memory_put", !.key = Some(AppKey(app_id)),
                                         !.value = Some(details),
                                         !.swept = Swept(memory_cache, cache, instant),
                                         !.evicted = Evicted(memory_cache, cache, instant)]
    /\ UNCHANGED <<settings, reminder, store_cfg, now, runtime_state, chan, state,
                   file, db, fired, ann, pre, steam_cfg, instant, phase,
                   channel_capacity, in_flight>>

\* A second passes on both clocks.
TimePasses ==
    /\ instant < MaxTime
    /\ instant' = instant + 1
    /\ now' = now + 1
    /\ last_op' = NoOp
    /\ UNCHANGED <<settings, reminder, store_cfg, runtime_state, chan, state, file, db,
                   fired, ann, pre, steam_cfg, memory_cache, phase,
                   channel_capacity, in_flight>>

(***************************************************************************)
(* Spec: the decisions of the observation handler, over every emit flag,   *)
(* with reminders on the status and the status file without sqlite.        *)
(***************************************************************************)
Init ==
    /\ Start(AllSettings,
          {r \in AllReminders : r.enabled /\ ~r.steam_only},
          {c \in AllStores : c.state_cache /\ ~c.sqlite}, FALSE)
    /\ StartChannel(MaxChan)
    /\ StartSteam(SmallestSteam)

Next ==
    \/ ObserveAny
    \/ DeliverAny
    \/ ProcessRestart

Spec == Init /\ [][Next]_vars

(***************************************************************************)
(* SpecReminder: observations and reminder ticks under a wall clock that   *)
(* can also step back, for both anchor policies, without a status cache.   *)
(***************************************************************************)
InitReminder ==
    /\ Start({x \in AllSettings : ~x.emit_initial_status /\ ~x.emit_on_activity_change
                               /\ ~x.rich_presence_only},
          {r \in AllReminders : r.enabled},
          {c \in AllStores : ~c.state_cache /\ ~c.sqlite}, FALSE)
    /\ StartChannel(MaxChan)
    /\ StartSteam(SmallestSteam)

NextReminder ==
    \/ ObserveAny
    \/ ReminderTick
    \/ DeliverAny
    \/ ClockAdvance
    \/ ClockStepBack

SpecReminder == InitReminder /\ [][NextReminder]_vars

(***************************************************************************)
(* SpecRestart: process lifetimes, with activity events and reminders on,  *)
(* under a clock that only advances.                                       *)
(***************************************************************************)
InitRestart ==
    /\ Start({x \in AllSettings : ~x.emit_initial_status /\ x.emit_on_activity_change
                               /\ ~x.rich_presence_only},
          {r \in AllReminders : r.enabled /\ ~r.steam_only},
          {c \in AllStores : c.state_cache /\ ~c.sqlite}, TRUE)
    /\ StartChannel(MaxChan)
    /\ StartSteam(SmallestSteam)

NextRestart ==
    \/ ObserveAny
    \/ ReminderTick
    \/ DeliverAny
    \/ ClockAdvance
    \/ ProcessRestart

SpecRestart == InitRestart /\ [][NextRestart]_vars

(***************************************************************************)
(* SpecStore: set_status, get_status and load called one after the other,  *)
(* with and without the sqlite tier.                                       *)
(***************************************************************************)
InitStore ==
    /\ Start({x \in AllSettings : ~x.emit_initial_status /\ ~x.emit_on_activity_change
                               /\ ~x.rich_presence_only},
          {r \in AllReminders : ~r.enabled /\ ~r.steam_only},
          {c \in AllStores : c.state_cache}, FALSE)
    /\ StartChannel(MaxChan)
    /\ StartSteam(SmallestSteam)

NextStore ==
    \/ \E key \in StatusKeys, status \in StoreStatuses, file_io \in WriteOutcomes,
          db_io \in IoOutcomes : StoreSetStatus(key, status, file_io, db_io)
    \/ \E key \in StatusKeys, db_io \in IoOutcomes : StoreGetStatus(key, db_io)
    \/ StoreLoad

SpecStore == InitStore /\ [][NextStore]_vars

(***************************************************************************)
(* SpecSteam: lookups through the memory tier and the sqlite tier, with    *)
(* and without the sqlite backend, for every memory capacity.              *)
(***************************************************************************)
InitSteam ==
    /\ Start({x \in AllSettings : ~x.emit_initial_status /\ ~x.emit_on_activity_change
                                  /\ ~x.rich_presence_only},
             {r \in AllReminders : ~r.enabled /\ ~r.steam_only},
             {c \in AllStores : ~c.state_cache}, FALSE)
    /\ StartChannel(MaxChan)
    /\ StartSteam({c \in AllSteamSettings : c.description_max_chars = 1})

\* The outcomes of a call of the sqlite tier: it can fail only where there
\* is one.
TierOutcomes == IF store_cfg.sqlite THEN IoOutcomes ELSE {"ok"}

NextSteam ==
    \/ \E app_id \in AppIds, get_io \in TierOutcomes, set_io \in TierOutcomes :
          \E api \in FewApiAnswers(app_id) : FetchGameDetails(app_id, api, get_io, set_io)
    \/ \E app_id \in AppIds : MemoryGet(app_id)
    \/ \E app_id \in AppIds :
          \E api \in FewApiAnswers(app_id) :
              api.details # None /\ MemoryPut(app_id, Unwrap(api.details))
    \/ TimePasses

SpecSteam == InitSteam /\ [][NextSteam]_vars

(***************************************************************************)
(* SpecNoBackend: the status store and the SteamClient of one process that  *)
(* runs with cache.backend = "none".                                        *)
(***************************************************************************)
InitNoBackend ==
    /\ Start({x \in AllSettings : ~x.emit_initial_status /\ ~x.emit_on_activity_change
                                  /\ ~x.rich_presence_only},
             {r \in AllReminders : ~r.enabled /\ ~r.steam_only},
             {c \in AllStores : c.state_cache /\ ~c.sqlite}, FALSE)
    /\ StartChannel(MaxChan)
    /\ StartSteam(SmallestSteam)

NextNoBackend ==
    \/ \E key \in StatusKeys, status \in {"Online", "Dnd"}, file_io \in WriteOutcomes,
          db_io \in TierOutcomes : StoreSetStatus(key, status, file_io, db_io)
    \/ \E key \in StatusKeys, db_io \in TierOutcomes : StoreGetStatus(key, db_io)
    \/ StoreLoad
    \/ \E app_id \in AppIds, get_io \in TierOutcomes, set_io \in TierOutcomes :
          \E api \in FewApiAnswers(app_id) : FetchGameDetails(app_id, api, get_io, set_io)
    \/ TimePasses

SpecNoBackend == InitNoBackend /\ [][NextNoBackend]_vars

(***************************************************************************)
(* SpecPipeline: one process from start to exit, with a channel that holds  *)
(* MaxPending events, activity events and reminders on.                     *)
(***************************************************************************)
InitPipeline ==
    /\ Start({x \in AllSettings : ~x.emit_initial_status /\ x.emit_on_activity_change
                                  /\ ~x.rich_presence_only},
             {r \in AllReminders : r.enabled /\ ~r.steam_only},
             {c \in AllStores : ~c.state_cache /\ ~c.sqlite}, FALSE)
    /\ StartChannel(MaxPending)
    /\ StartSteam(SmallestSteam)

NextPipeline ==
    \/ ObserveAny
    \/ ReminderTick
    \/ DeliverAny
    \/ ClockAdvance
    \/ ClientExit
    \/ DrainEnd
    \/ ShutdownSignal

SpecPipeline == InitPipeline /\ [][NextPipeline]_vars

\* The same steps with the send loop scheduled fairly: the task is spawned on
\* the runtime, rx.recv() is ready whenever the channel holds an event, and
\* each sender.send returns (the step Deliver is the whole call).
SpecDrain == SpecPipeline /\ WF_vars(DeliverAny)

\* The events the producers of SpecPipeline can build.
PipelineEvents ==
    {NewEvent(TargetGuildId, previous, normalize_status(raw),
              extract_activity_context(acts), reminder_ctx) :
        previous \in {None} \cup {Some(normalize_status(raw)) : raw \in RawStatuses},
        raw \in RawStatuses,
        acts \in ActivityLists,
        reminder_ctx \in {None} \cup
            {Some([elapsed_seconds |-> k * IntervalMinutes * 60,
                   interval_seconds |-> IntervalMinutes * 60,
                   sequence |-> k]) : k \in 1..MaxIntervals}}

(***************************************************************************)
(* SpecAnchor: observations and reminder ticks for every reminder policy,  *)
(* with and without rich_presence_only.                                    *)
(***************************************************************************)
InitAnchor ==
    /\ Start({x \in AllSettings : ~x.emit_initial_status /\ ~x.emit_on_activity_change},
             AllReminders,
             {c \in AllStores : ~c.state_cache /\ ~c.sqlite}, FALSE)
    /\ StartChannel(MaxChan)
    /\ StartSteam(SmallestSteam)

NextAnchor ==
    \/ ObserveAny
    \/ ReminderTick
    \/ DeliverAny
    \/ ClockAdvance

SpecAnchor == InitAnchor /\ [][NextAnchor]_vars

(***************************************************************************)
(* SpecInterleave: the handler and the reminder loop step by step, with    *)
(* status and activity events on and a status-keyed anchor.                *)
(***************************************************************************)
InitInterleave ==
    /\ Start({x \in AllSettings : ~x.emit_initial_status /\ x.emit_on_activity_change
                                  /\ ~x.rich_presence_only},
             {r \in AllReminders : r.enabled /\ ~r.steam_only},
             {c \in AllStores : ~c.state_cache /\ ~c.sqlite}, FALSE)
    /\ StartChannel(MaxPending)
    /\ StartSteam(SmallestSteam)

NextInterleave ==
    \/ \E g \in GuildInputs, raw \in RawStatuses, acts \in ActivityLists :
          HandlerLock("h1", g, raw, acts)
    \/ HandlerDecide("h1")
    \/ HandlerSend("h1")
    \/ TickDecide
    \/ TickSend
    \/ DeliverAny
    \/ ClockAdvance

SpecInterleave == InitInterleave /\ [][NextInterleave]_vars

(***************************************************************************)
(* SpecLock: one invocation of the handler at a time and the reminder      *)
(* loop, step by step, with a status file and a channel of capacity        *)
(* MaxChan that fills up.                                                  *)
(***************************************************************************)
InitLock ==
    /\ Start({x \in AllSettings : ~x.emit_initial_status /\ ~x.emit_on_activity_change
                                  /\ ~x.rich_presence_only},
             {r \in AllReminders : r.enabled /\ ~r.steam_only},
             {c \in AllStores : c.state_cache /\ ~c.sqlite}, FALSE)
    /\ StartChannel(MaxChan)
    /\ StartSteam(SmallestSteam)

NextLock ==
    \/ \E g \in GuildInputs, raw \in RawStatuses : HandlerLock("h1", g, raw, <<>>)
    \/ HandlerDecide("h1")
    \/ HandlerPersist("h1")
    \/ HandlerSend("h1")
    \/ TickDecide
    \/ TickSend
    \/ DeliverAny
    \/ ClockAdvance

SpecLock == InitLock /\ [][NextLock]_vars

(***************************************************************************)
(* SpecSnapshot: two invocations of the handler and the reminder loop,     *)
(* step by step, without a status cache.                                   *)
(***************************************************************************)
\* The observations of SpecSnapshot: two that differ in status and activity.
SnapshotInputs == {<<"Online", <<>>>>, <<"Idle", <<Dota>>>>}

InitSnapshot ==
    /\ Start({x \in AllSettings : ~x.emit_initial_status /\ ~x.emit_on_activity_change
                                  /\ ~x.rich_presence_only},
             {r \in AllReminders : r.enabled /\ ~r.steam_only},
             {c \in AllStores : ~c.state_cache /\ ~c.sqlite}, FALSE)
    /\ StartChannel(MaxChan)
    /\ StartSteam(SmallestSteam)

NextSnapshot ==
    \/ \E h \in HandlerIds, g \in GuildInputs, input \in SnapshotInputs :
          HandlerLock(h, g, input[1], input[2])
    \/ \E h \in HandlerIds : HandlerDecide(h)
    \/ \E h \in HandlerIds : HandlerSend(h)
    \/ TickDecide
    \/ TickSend
    \/ DeliverAny
    \/ ClockAdvance

SpecSnapshot == InitSnapshot /\ [][NextSnapshot]_vars

(***************************************************************************)
(* SpecPersist: two invocations of the handler step by step, with a status *)
(* file and without reminders.                                             *)
(***************************************************************************)
InitPersist ==
    /\ Start({x \in AllSettings : ~x.emit_initial_status /\ ~x.emit_on_activity_change
                                  /\ ~x.rich_presence_only},
             {r \in AllReminders : ~r.enabled /\ ~r.steam_only},
             {c \in AllStores : c.state_cache /\ ~c.sqlite}, FALSE)
    /\ StartChannel(MaxChan)
    /\ StartSteam(SmallestSteam)

NextPersist ==
    \/ \E h \in HandlerIds, g \in GuildInputs, raw \in RawStatuses :
          HandlerLock(h, g, raw, <<>>)
    \/ \E h \in HandlerIds : HandlerDecide(h)
    \/ \E h \in HandlerIds : HandlerPersist(h)
    \/ \E h \in HandlerIds : HandlerSend(h)
    \/ DeliverAny

SpecPersist == InitPersist /\ [][NextPersist]_vars

(***************************************************************************)
(* SpecWriters: two callers of set_status on one PersistentStatusCache,    *)
(* step by step.                                                           *)
(***************************************************************************)
InitWriters ==
    /\ Start({x \in AllSettings : ~x.emit_initial_status /\ ~x.emit_on_activity_change
                                  /\ ~x.rich_presence_only},
             {r \in AllReminders : ~r.enabled /\ ~r.steam_only},
             {c \in AllStores : c.state_cache}, FALSE)
    /\ StartChannel(MaxChan)
    /\ StartSteam(SmallestSteam)

NextWriters ==
    \/ \E c \in WriterIds, status \in {"Online", "Idle"} :
          SetStatusBegin(c, status_cache_key, status)
    \/ \E c \in WriterIds, io \in IoOutcomes : WriteTemp(c, io)
    \/ \E c \in WriterIds, io \in IoOutcomes : RemoveOld(c, io)
    \/ \E c \in WriterIds, io \in IoOutcomes, db_io \in IoOutcomes :
          SetStatusFinish(c, io, db_io)

SpecWriters == InitWriters /\ [][NextWriters]_vars

(***************************************************************************)
(* SpecSeeded: process lifetimes for every reminder policy, with and       *)
(* without rich_presence_only, the runtime state of each lifetime seeded   *)
(* from the status file.                                                   *)
(***************************************************************************)
InitSeeded ==
    /\ Start({x \in AllSettings : ~x.emit_initial_status /\ ~x.emit_on_activity_change},
             AllReminders,
             {c \in AllStores : c.state_cache /\ ~c.sqlite}, FALSE)
    /\ StartChannel(MaxChan)
    /\ StartSteam(SmallestSteam)

NextSeeded ==
    \/ ObserveAny
    \/ ReminderTick
    \/ DeliverAny
    \/ ClockAdvance
    \/ ProcessRestart

SpecSeeded == InitSeeded /\ [][NextSeeded]_vars

(***************************************************************************)
(* SpecBackfill: lookups of a SteamClient with the sqlite tier and a       *)
(* memory tier of one entry, for memory and sqlite lifetimes of one and    *)
(* two seconds, over a time longer than the two lifetimes together.  The   *)
(* store API reports as player count the second at which it is asked, so   *)
(* that every value tells when it was fetched.                             *)
(***************************************************************************)
BackfillSteamSettings ==
    [memory_cache_capacity : {1}, memory_cache_ttl : 1..2,
     db_cache_ttl_seconds : 1..2, description_max_chars : {1}]

BackfillApps == {570, 730}

LifetimeHorizon == MaxTime + 2

TimedApiAnswers(app_id) ==
    {ApiErr, ApiNone,
     ApiDetails(app_id, <<"a">>, steam_cfg.description_max_chars, Some(now))}

\* A second passes on both clocks, up to the given one.
SecondPasses(limit) ==
    /\ instant < limit
    /\ instant' = instant + 1
    /\ now' = now + 1
    /\ last_op' = NoOp
    /\ UNCHANGED <<settings, reminder, store_cfg, runtime_state, chan, state, file, db,
                   fired, ann, pre, steam_cfg, memory_cache, phase,
                   channel_capacity, in_flight>>

InitBackfill ==
    /\ Start({x \in AllSettings : ~x.emit_initial_status /\ ~x.emit_on_activity_change
                                  /\ ~x.rich_presence_only},
             {r \in AllReminders : ~r.enabled /\ ~r.steam_only},
             {c \in AllStores : ~c.state_cache /\ c.sqlite}, FALSE)
    /\ StartChannel(MaxChan)
    /\ StartSteam(BackfillSteamSettings)

NextBackfill ==
    \/ \E app_id \in BackfillApps, get_io \in IoOutcomes, set_io \in IoOutcomes :
          \E api \in TimedApiAnswers(app_id) : FetchGameDetails(app_id, api, get_io, set_io)
    \/ SecondPasses(LifetimeHorizon)

SpecBackfill == InitBackfill /\ [][NextBackfill]_vars

(***************************************************************************)
(* SpecSqlite: SqliteCacheStore::get and ::set called one after the other  *)
(* on rows of two namespaces while the wall clock advances.                *)
(***************************************************************************)
\* The (namespace, key) pairs, values and ttls of the calls.
CacheSlots == {<<"steam", "570">>, <<"steam", "730">>, <<"status", "570">>}
CacheValues == {"v", "w"}
CacheTtls == {None, Some(0), Some(1)}

CacheGet(namespace, key, io) ==
    /\ store_cfg.sqlite
    /\ \E got \in {IF io = "ok" THEN SqliteGet(db, namespace, key, now)
                    ELSE [value |-> None, rows |-> db]} :
          /\ db' = got.rows
          /\ last_op' = [NoOp EXCEPT !.op = "cache_get", !.key = Some(<<namespace, key>>),
                                     !.ok = (io = "ok"), !.value = got.value]
    /\ UNCHANGED <<settings, reminder, store_cfg, now, runtime_state, chan, state, file,
                   fired, ann, pre>>
    /\ UNCHANGED <<steam_cfg, memory_cache, instant, phase, channel_capacity, in_flight>>

CacheSet(namespace, key, value, ttl_seconds, io) ==
    /\ store_cfg.sqlite
    /\ db' = IF io = "ok" THEN SqliteSet(db, namespace, key, value, ttl_seconds, now)
             ELSE db
    /\ last_op' = [NoOp EXCEPT !.op = "cache_set", !.key = Some(<<namespace, key>>),
                               !.ok = (io = "ok"), !.value = Some(value)]
    /\ UNCHANGED <<settings, reminder, store_cfg, now, runtime_state, chan, state, file,
                   fired, ann, pre>>
    /\ UNCHANGED <<steam_cfg, memory_cache, instant, phase, channel_capacity, in_flight>>

InitSqlite ==
    /\ Start({x \in AllSettings : ~x.emit_initial_status /\ ~x.emit_on_activity_change
                                  /\ ~x.rich_presence_only},
             {r \in AllReminders : ~r.enabled /\ ~r.steam_only},
             {c \in AllStores : ~c.state_cache /\ c.sqlite}, FALSE)
    /\ StartChannel(MaxChan)
    /\ StartSteam(SmallestSteam)

NextSqlite ==
    \/ \E slot \in CacheSlots, io \in IoOutcomes : CacheGet(slot[1], slot[2], io)
    \/ \E slot \in CacheSlots, value \in CacheValues, ttl_seconds \in CacheTtls,
          io \in IoOutcomes : CacheSet(slot[1], slot[2], value, ttl_seconds, io)
    \/ TimePasses

SpecSqlite == InitSqlite /\ [][NextSqlite]_vars

(***************************************************************************)
(* SpecTiers: lookups of a SteamClient with the sqlite tier and the        *)
(* smallest memory tier, with every outcome of the tier's calls and of the *)
(* store API.                                                              *)
(***************************************************************************)
InitTiers ==
    /\ Start({x \in AllSettings : ~x.emit_initial_status /\ ~x.emit_on_activity_change
                                  /\ ~x.rich_presence_only},
             {r \in AllReminders : ~r.enabled /\ ~r.steam_only},
             {c \in AllStores : ~c.state_cache /\ c.sqlite}, FALSE)
    /\ StartChannel(MaxChan)
    /\ StartSteam(SmallestSteam)

NextTiers ==
    \/ \E app_id \in AppIds, get_io \in IoOutcomes, set_io \in IoOutcomes :
          \E api \in FewApiAnswers(app_id) : FetchGameDetails(app_id, api, get_io, set_io)
    \/ TimePasses

SpecTiers == InitTiers /\ [][NextTiers]_vars

(***************************************************************************)
(* SpecFailures: the status store and the SteamClient of one process over  *)
(* one sqlite table whose calls can fail.                                  *)
(***************************************************************************)
InitFailures ==
    /\ Start({x \in AllSettings : ~x.emit_initial_status /\ ~x.emit_on_activity_change
                                  /\ ~x.rich_presence_only},
             {r \in AllReminders : ~r.enabled /\ ~r.steam_only},
             {c \in AllStores : c.state_cache /\ c.sqlite}, FALSE)
    /\ StartChannel(MaxChan)
    /\ StartSteam(SmallestSteam)

NextFailures ==
    \/ \E status \in {"Online", "Dnd"}, file_io \in WriteOutcomes, db_io \in IoOutcomes :
          StoreSetStatus(status_cache_key, status, file_io, db_io)
    \/ \E db_io \in IoOutcomes : StoreGetStatus(status_cache_key, db_io)
    \/ StoreLoad
    \/ \E get_io \in IoOutcomes, set_io \in IoOutcomes :
          \E api \in FewApiAnswers(570) : FetchGameDetails(570, api, get_io, set_io)
    \/ TimePasses

SpecFailures == InitFailures /\ [][NextFailures]_vars

(***************************************************************************)
(* SpecText: lookups of one app that the store API answers with every      *)
(* description, for every description_max_chars.                           *)
(***************************************************************************)
InitText ==
    /\ Start({x \in AllSettings : ~x.emit_initial_status /\ ~x.emit_on_activity_change
                                  /\ ~x.rich_presence_only},
             {r \in AllReminders : ~r.enabled /\ ~r.steam_only},
             {c \in AllStores : ~c.state_cache /\ ~c.sqlite}, FALSE)
    /\ StartChannel(MaxChan)
    /\ StartSteam({c \in AllSteamSettings : c.memory_cache_capacity = 1})

NextText ==
    \/ \E api \in TextApiAnswers(570) : FetchGameDetails(570, api, "ok", "ok")
    \/ TimePasses

SpecText == InitText /\ [][NextText]_vars

(***************************************************************************)
(* Properties of the observation handler (Spec)                            *)
(***************************************************************************)
\* The event an action appended to the channel.
Enqueued == chan'[Len(chan')]

\* C1: an observation whose normalized status and activity fingerprint are
\* those the previous observation stored produces no event, for every
\* combination of the three emit flags.
C1_RepeatedObservationIsSilent ==
    [][\A g \in GuildInputs, raw \in RawStatuses, acts \in ActivityLists :
          (/\ Observe(g, raw, acts)
           /\ runtime_state.current_status = Some(normalize_status(raw))
           /\ runtime_state.current_activity_fingerprint =
                  Some(build_activity_fingerprint(acts)))
          => chan' = chan]_vars

\* A repeated observation was handled silently although both emit flags are on
\* and the repeated presence has an activity.
C1_Witness ==
    /\ last_op.op = "observe"
    /\ last_op.repeat
    /\ ~last_op.sent
    /\ settings.emit_initial_status
    /\ settings.emit_on_activity_change
    /\ IsSome(runtime_state.current_activity)

\* C2: with emit_initial_status false, an observation made while no previous
\* status is known enqueues nothing and leaves the observed normalized status
\* as the runtime current status.
C2_InitialObservationIsRecordedSilently ==
    [][\A g \in GuildInputs, raw \in RawStatuses, acts \in ActivityLists :
          (/\ Observe(g, raw, acts)
           /\ ~settings.emit_initial_status
           /\ runtime_state.current_status = None)
          => /\ chan' = chan
             /\ runtime_state'.current_status = Some(normalize_status(raw))]_vars

\* A first observation with an activity was recorded without an event while
\* emit_on_activity_change is on.
C2_Witness ==
    /\ last_op.op = "observe"
    /\ last_op.previous = None
    /\ ~last_op.sent
    /\ ~settings.emit_initial_status
    /\ settings.emit_on_activity_change
    /\ IsSome(runtime_state.current_activity)
    /\ runtime_state.current_status = last_op.status

\* C3: an observation enqueues an event exactly when the policy formula says
\* so: in rich-presence-only mode emit_on_activity_change, a changed
\* fingerprint and a present activity; otherwise a changed status, or
\* emit_on_activity_change and a changed fingerprint; and in both modes a known
\* previous status or emit_initial_status.
C3_EmitDecisionIsThePolicy ==
    [][\A g \in GuildInputs, raw \in RawStatuses, acts \in ActivityLists :
          Observe(g, raw, acts) =>
            LET status_changed ==
                    runtime_state.current_status # Some(normalize_status(raw))
                fp == build_activity_fingerprint(acts)
                activity_changed ==
                    IF runtime_state.current_activity_fingerprint = None
                    THEN Len(acts) > 0
                    ELSE runtime_state.current_activity_fingerprint # Some(fp)
                policy ==
                    IF settings.rich_presence_only
                    THEN /\ settings.emit_on_activity_change
                         /\ activity_changed
                         /\ Len(acts) > 0
                    ELSE \/ status_changed
                         \/ settings.emit_on_activity_change /\ activity_changed
                known == runtime_state.current_status # None
            IN  (chan' # chan) <=> (policy /\ (known \/ settings.emit_initial_status))]_vars

\* The scenario of the rich-presence-only mode: the status went from online to
\* idle while the activity went away, and nothing was enqueued.
C3_Witness ==
    /\ last_op.op = "observe"
    /\ settings.rich_presence_only
    /\ settings.emit_on_activity_change
    /\ last_op.previous = Some("Online")
    /\ last_op.status = Some("Idle")
    /\ last_op.activity_changed
    /\ runtime_state.current_activity = None
    /\ ~last_op.sent

\* C4 as stated: with emit_on_activity_change and without rich-presence-only,
\* an observation with the previous status and a changed fingerprint enqueues
\* an event with previous_status = current_status, a populated activity and no
\* reminder metadata.
C4_ActivityEventHasActivity ==
    [][\A g \in GuildInputs, raw \in RawStatuses, acts \in ActivityLists :
          (/\ Observe(g, raw, acts)
           /\ settings.emit_on_activity_change
           /\ ~settings.rich_presence_only
           /\ runtime_state.current_status = Some(normalize_status(raw))
           /\ activity_changed_from(runtime_state.current_activity_fingerprint,
                                    build_activity_fingerprint(acts)))
          => /\ Len(chan') = Len(chan) + 1
             /\ Enqueued.previous_status = Some(Enqueued.current_status)
             /\ IsSome(Enqueued.activity)
             /\ Enqueued.reminder = None]_vars

\* C4: with emit_on_activity_change and without rich-presence-only, an
\* observation with the previous status and a changed fingerprint enqueues an
\* event with previous_status = current_status, no reminder metadata and the
\* observation's primary activity, which is populated exactly when the
\* observation carries an activity.
C4_ActivityEventCarriesPrimaryActivity ==
    [][\A g \in GuildInputs, raw \in RawStatuses, acts \in ActivityLists :
          (/\ Observe(g, raw, acts)
           /\ settings.emit_on_activity_change
           /\ ~settings.rich_presence_only
           /\ runtime_state.current_status = Some(normalize_status(raw))
           /\ activity_changed_from(runtime_state.current_activity_fingerprint,
                                    build_activity_fingerprint(acts)))
          => /\ Len(chan') = Len(chan) + 1
             /\ Enqueued.previous_status = Some(Enqueued.current_status)
             /\ Enqueued.current_status = normalize_status(raw)
             /\ Enqueued.reminder = None
             /\ Enqueued.activity = extract_activity_context(acts)
             /\ IsSome(Enqueued.activity) <=> Len(acts) > 0]_vars

\* The activity went away under an unchanged status, and the event enqueued
\* for it has no activity.
C4_Witness ==
    /\ last_op.op = "observe"
    /\ last_op.sent
    /\ last_op.activity_changed
    /\ last_op.previous = last_op.status
    /\ settings.emit_on_activity_change
    /\ ~settings.rich_presence_only
    /\ chan # <<>>
    /\ chan[Len(chan)].previous_status = Some(chan[Len(chan)].current_status)
    /\ chan[Len(chan)].activity = None

(***************************************************************************)
(* Properties of the reminder loop (SpecReminder)                          *)
(***************************************************************************)
\* The tick finds a status and an anchor.
ActiveAnchor ==
    runtime_state.current_status # None /\ runtime_state.reminder_anchor # None

Anchor == Unwrap(runtime_state.reminder_anchor)

\* floor((now - anchor.start) / interval_seconds).
FloorSequence == (now - Anchor.started_at_unix) \div interval_seconds(reminder)

\* The step enqueued a reminder event.
ReminderFired == Len(chan') = Len(chan) + 1 /\ Enqueued.reminder # None

\* The sequence of the reminder the step enqueued.
FiredSequence == Unwrap(Enqueued.reminder).sequence

\* C5 as stated: on a tick with an active anchor, with sequence =
\* floor((now - anchor.start) / interval_seconds), no reminder fires if
\* sequence = 0 or sequence <= last_sequence, and otherwise exactly one fires,
\* with that sequence, and last_sequence becomes sequence; with the anchor
\* started at 0 and an interval of 1800 s that is nothing at 1799, sequence 1
\* at 1800, nothing more at 3599, sequence 2 at 3600.
C5_TickFollowsFloorOfElapsed ==
    [][(ReminderTick /\ ActiveAnchor) =>
          IF FloorSequence = 0 \/ FloorSequence <= Anchor.last_sequence
          THEN chan' = chan /\ runtime_state' = runtime_state
          ELSE /\ ReminderFired
               /\ FiredSequence = FloorSequence
               /\ Unwrap(runtime_state'.reminder_anchor).last_sequence = FloorSequence]_vars

\* C6: a reminder fired for an anchor has a greater sequence than every
\* reminder fired for that anchor before it, so no sequence fires twice; and a
\* step that changes the anchor key to another key leaves last_sequence 0.
C6_SequencesIncreasePerAnchor ==
    [][/\ ReminderFired => \A s \in fired : s < FiredSequence
       /\ (AnchorKey(runtime_state') # AnchorKey(runtime_state)
           /\ runtime_state'.reminder_anchor # None)
          => Unwrap(runtime_state'.reminder_anchor).last_sequence = 0]_vars

\* A second reminder fired for one anchor.
C6_Witness ==
    /\ last_op.op = "tick"
    /\ last_op.sent
    /\ Cardinality(fired) >= 2
    /\ Anchor.last_sequence = last_op.sequence

\* C7 as stated: every interval boundary that passed gets its own reminder,
\* one per tick: a reminder that fires while the clock is not before the
\* anchor's start finds a reminder fired for every earlier boundary.
C7_OneReminderPerMissedBoundary ==
    [][(ReminderTick /\ ReminderFired /\ now >= Anchor.started_at_unix)
          => \A s \in 1..(FiredSequence - 1) : s \in fired]_vars

\* C7: a tick enqueues at most one reminder; while the clock is not before
\* the anchor's start, a tick fires exactly when the floor of elapsed/interval
\* is above last_sequence, and then the one reminder carries that latest
\* sequence, last_sequence becomes it, and the boundaries skipped in between
\* get no reminder, on this tick or later.
C7_LateTickFiresLatestSequenceOnly ==
    [][ReminderTick =>
          /\ Len(chan') <= Len(chan) + 1
          /\ chan' # chan => ReminderFired
          /\ ReminderFired =>
                /\ Unwrap(runtime_state'.reminder_anchor).last_sequence =
                       FiredSequence
                /\ \A s \in fired : s < FiredSequence
          /\ (ActiveAnchor /\ now >= Anchor.started_at_unix) =>
                /\ ReminderFired <=> FloorSequence > Anchor.last_sequence
                /\ ReminderFired => FiredSequence = FloorSequence]_vars

\* A late tick fired sequence 2 for an anchor that never fired sequence 1.
C7_Witness ==
    /\ last_op.op = "tick"
    /\ last_op.sent
    /\ last_op.sequence = 2
    /\ fired = {2}
    /\ now = Anchor.started_at_unix + 2 * interval_seconds(reminder)

(***************************************************************************)
(* Properties across process lifetimes (SpecRestart)                       *)
(***************************************************************************)
\* The runtime state is the one a restart built, not yet observed into.
FirstObservationAfterRestart ==
    pre.valid /\ runtime_state.current_activity_fingerprint = None

\* C8 as stated: after a restart that recovered the status S, the first
\* observation with status S enqueues no status-change event, and no event at
\* all when the event announcing its status and activities was delivered
\* before the restart.
C8_RecoveredStateIsNotReannounced ==
    [][\A g \in GuildInputs, raw \in RawStatuses, acts \in ActivityLists :
          (/\ Observe(g, raw, acts)
           /\ FirstObservationAfterRestart
           /\ runtime_state.current_status = Some(normalize_status(raw)))
          => /\ chan' # chan => Enqueued.previous_status = Some(Enqueued.current_status)
             /\ (/\ pre.announced
                 /\ pre.status = Some(normalize_status(raw))
                 /\ pre.fp = Some(build_activity_fingerprint(acts)))
                => chan' = chan]_vars

\* C9 as stated: while the anchor key is the one the period had before the
\* restart, no reminder fires with a sequence that fired for that period
\* before the restart.
C9_NoSequenceFiresAgainAfterRestart ==
    [][(ReminderTick /\ ReminderFired /\ pre.valid /\ pre.key # None
        /\ AnchorKey(runtime_state) = pre.key)
          => FiredSequence \notin pre.fired]_vars

(***************************************************************************)
(* Properties of the persistent status cache (SpecStore)                   *)
(***************************************************************************)
\* get_status(key) of a PersistentStatusCache loaded from the file now.
FreshGet(key, db_io) ==
    get_status(read_file(file), db, store_cfg.sqlite, key, now, db_io).status

\* C10: after set_status(k, S) returned Ok, a cache freshly loaded from the
\* file returns S for k, and for every other key the status the writing cache
\* holds for it.
C10_StatusRoundTrip ==
    (last_op.op = "set_status" /\ last_op.ok) =>
        \A db_io \in IoOutcomes :
            /\ FreshGet(Unwrap(last_op.key), db_io) = last_op.status
            /\ \A other \in StatusKeys \ {Unwrap(last_op.key)} :
                  FreshGet(other, db_io) =
                      get_status(state, db, store_cfg.sqlite, other, now, db_io).status

\* A successful set_status of one key while the other key holds a different
\* status, written earlier.
C10_Witness ==
    /\ last_op.op = "set_status"
    /\ last_op.ok
    /\ \E other \in StatusKeys \ {Unwrap(last_op.key)} :
          /\ state[other] # None
          /\ state[other] # last_op.status
          /\ FreshGet(other, "ok") = state[other]

\* C11 as stated: whatever step of set_status's file rewrite fails or is the
\* last one before a crash, a status file that held a snapshot still holds
\* one afterwards, the previous snapshot or the new one.
C11_FileAlwaysHoldsASnapshot ==
    [][\A key \in StatusKeys, status \in StoreStatuses,
          file_io \in WriteOutcomes, db_io \in IoOutcomes :
          (StoreSetStatus(key, status, file_io, db_io) /\ file # None)
          => file' \in {file, Some(SerializeFile([state EXCEPT ![key] = Some(status)]))}]_vars

\* C12: set_status returns an error exactly when the file write fails; the
\* outcome of the sqlite write does not change its result.
C12_ErrorIffFileWriteFails ==
    [][\A key \in StatusKeys, status \in StoreStatuses,
          file_io \in WriteOutcomes, db_io \in IoOutcomes :
          StoreSetStatus(key, status, file_io, db_io)
          => (last_op'.ok <=> file_io = "ok")]_vars

\* set_status returned Ok with the sqlite tier configured, and the table does
\* not hold the status it was given: the sqlite write had failed.
C12_Witness ==
    /\ last_op.op = "set_status"
    /\ last_op.ok
    /\ store_cfg.sqlite
    /\ file = Some(SerializeFile(state))
    /\ SqliteGet(db, STATUS_CACHE_NAMESPACE, Unwrap(last_op.key), now).value
           # Some(StatusToString(Unwrap(last_op.status)))

(***************************************************************************)
(* Properties of the SteamClient (SpecSteam, SpecText)                     *)
(***************************************************************************)
\* The step stored a new entry for the app in the memory map.
Inserted(app_id) ==
    /\ memory_cache'[app_id] # None
    /\ memory_cache'[app_id] # memory_cache[app_id]

\* C13: after every get and put the memory map holds at most
\* memory_cache_capacity live entries; and a put of a key that has no live
\* entry, into a map that holds memory_cache_capacity live entries, removes
\* exactly one of them and leaves the others as they were.
C13_MemoryTierCapacity ==
    [][/\ Cardinality(LiveKeys(memory_cache', instant')) <= steam_cfg.memory_cache_capacity
       /\ \A app_id \in AppIds :
             (/\ Inserted(app_id)
              /\ app_id \notin LiveKeys(memory_cache, instant)
              /\ Cardinality(LiveKeys(memory_cache, instant))
                     = steam_cfg.memory_cache_capacity)
             => /\ Cardinality(LiveKeys(memory_cache, instant)
                               \ StoredKeys(memory_cache')) = 1
                /\ \A other \in LiveKeys(memory_cache, instant) :
                      memory_cache'[other] \in {None, memory_cache[other]}]_vars

\* A put into a map with two live entries and capacity 2 evicted one of them.
C13_Witness ==
    /\ last_op.op \in {"fetch", "memory_put"}
    /\ steam_cfg.memory_cache_capacity = 2
    /\ Cardinality(last_op.evicted) = 1
    /\ Cardinality(LiveKeys(memory_cache, instant)) = 2

\* C14: a get of a key whose entry has expires_at <= now returns None and
\* removes the entry, whether or not a put has swept the map since; and a
\* value a get returns is the value of an entry with expires_at > now.
C14_MemoryTierExpiry ==
    [][\A app_id \in AppIds :
          /\ MemoryGet(app_id) =>
                IF memory_cache[app_id] = None
                THEN last_op'.value = None /\ memory_cache' = memory_cache
                ELSE IF Unwrap(memory_cache[app_id]).expires_at <= instant
                THEN /\ last_op'.value = None
                     /\ memory_cache' = [memory_cache EXCEPT ![app_id] = None]
                ELSE /\ last_op'.value = Some(Unwrap(memory_cache[app_id]).value)
                     /\ memory_cache' = memory_cache
          /\ (last_op'.op = "fetch" /\ last_op'.key = Some(AppKey(app_id))
              /\ last_op'.tier = "memory")
             => /\ memory_cache[app_id] # None
                /\ Unwrap(memory_cache[app_id]).expires_at > instant
                /\ last_op'.value = Some(Unwrap(memory_cache[app_id]).value)]_vars

\* A get found an expired entry that no put had swept, removed it and
\* returned None.
C14_Witness ==
    \E app_id \in AppIds :
        /\ last_op.op = "memory_get"
        /\ last_op.key = Some(AppKey(app_id))
        /\ last_op.swept = {app_id}
        /\ last_op.value = None
        /\ memory_cache[app_id] = None

\* C17: the description fetch_game_details_from_api stores for a text the
\* store API returned is the trimmed text itself when it has at most
\* description_max_chars characters, and its first description_max_chars
\* characters followed by "..." when it has more.
C17_TruncateKeepsOrMarks ==
    [][\A text \in Texts :
          (/\ FetchGameDetails(570, ApiDetails(570, text, steam_cfg.description_max_chars, None), "ok", "ok")
           /\ get_from_memory_cache(memory_cache, 570, instant).value = None
           /\ non_empty_trimmed(text) # None)
          => LET trimmed == Unwrap(non_empty_trimmed(text))
                 n       == steam_cfg.description_max_chars
             IN  Unwrap(last_op'.value).short_description =
                    Some(IF Len(trimmed) <= n THEN trimmed
                         ELSE SubSeq(trimmed, 1, n) \o Ellipsis)]_vars

\* A description of three characters was cut to two and marked.
C17_Witness ==
    /\ last_op.op = "fetch"
    /\ last_op.tier = "api"
    /\ steam_cfg.description_max_chars = 2
    /\ last_op.value # None
    /\ Unwrap(last_op.value).short_description = Some(<<"a", "b", ".", ".", ".">>)

(***************************************************************************)
(* Properties of a process without durable backend (SpecNoBackend)         *)
(***************************************************************************)
\* C18: with cache.backend = "none" every get of the durable tier is
\* Ok(None) and every set is Ok(()) and stores nothing; get_status then
\* answers from the memory map alone, set_status succeeds exactly when the
\* file write does, and fetch_game_details answers from the memory tier or
\* from the store API and keeps nothing but the memory entry.
C18_NoBackendDegrades ==
    [][~store_cfg.sqlite =>
        /\ db' = {}
        /\ \A key \in StatusKeys, io \in IoOutcomes :
              /\ get_json(store_cfg.sqlite, db, STATUS_CACHE_NAMESPACE, key, now, io)
                    = [ok |-> TRUE, value |-> None, rows |-> db]
              /\ \A status \in StoreStatuses :
                    set_json(store_cfg.sqlite, db, STATUS_CACHE_NAMESPACE, key, status,
                             None, now, io) = [ok |-> TRUE, rows |-> db]
        /\ \A app_id \in AppIds, io \in IoOutcomes :
              /\ get_details_json(store_cfg.sqlite, db, STEAM_GAME_DETAILS_NAMESPACE,
                                  AppKey(app_id), now, io)
                    = [ok |-> TRUE, value |-> None, rows |-> db]
              /\ \A api \in FewApiAnswers(app_id) :
                    api.details # None =>
                       set_details_json(store_cfg.sqlite, db, STEAM_GAME_DETAILS_NAMESPACE,
                                        AppKey(app_id), Unwrap(api.details),
                                        Some(steam_cfg.db_cache_ttl_seconds), now, io)
                          = [ok |-> TRUE, rows |-> db]
        /\ last_op'.op = "get_status" =>
              /\ last_op'.status = state[Unwrap(last_op'.key)]
              /\ state' = state
              /\ file' = file
        /\ last_op'.op = "set_status" =>
              /\ state' = [state EXCEPT ![Unwrap(last_op'.key)] = last_op'.status]
              /\ IF last_op'.ok THEN file' = Some(SerializeFile(state'))
                 ELSE file' \in {file, None}
        /\ (last_op'.op = "fetch" /\ instant' = instant) =>
              \E app_id \in AppIds :
                 /\ last_op'.key = Some(AppKey(app_id))
                 /\ LET mem == get_from_memory_cache(memory_cache, app_id, instant)
                    IN  IF mem.value # None
                        THEN /\ last_op'.ok /\ last_op'.tier = "memory"
                             /\ last_op'.value = mem.value
                        ELSE /\ last_op'.tier = "api"
                             /\ last_op'.value \in
                                   {a.details : a \in FewApiAnswers(app_id)}]_vars

\* A lookup answered by the store API, in a process whose status store holds
\* a status, with nothing kept in a durable tier.
C18_Witness ==
    /\ ~store_cfg.sqlite
    /\ last_op.op = "fetch"
    /\ last_op.tier = "api"
    /\ last_op.value # None
    /\ \E key \in StatusKeys : state[key] # None /\ file # None
    /\ db = {}

(***************************************************************************)
(* Properties of the pipeline (SpecPipeline)                               *)
(***************************************************************************)
\* C15: the channel changes only by an event appended at its tail or by its
\* oldest event taken off; the sink is called only with the event taken off
\* the head, so it receives the events in the order of their enqueueing,
\* each once, none merged.  (Events still queued when the process exits are
\* not passed to the sink at all.)
C15_PipelineIsFifo ==
    [][/\ \/ chan' = chan
          \/ /\ Len(chan') = Len(chan) + 1
             /\ SubSeq(chan', 1, Len(chan)) = chan
             /\ last_op'.op \in {"observe", "tick"}
          \/ /\ chan # <<>>
             /\ chan' = Tail(chan)
             /\ last_op'.op = "deliver"
          \/ /\ phase' = "exited"
             /\ chan' = <<>>
             /\ last_op'.op = "shutdown_signal"
       /\ last_op'.op = "deliver" =>
             /\ chan # <<>>
             /\ chan' = Tail(chan)
             /\ last_op'.event = Some(Head(chan))]_vars

\* The sink was called with the older of two different queued events, and
\* the newer one is still in the channel.
C15_Witness ==
    /\ last_op.op = "deliver"
    /\ chan # <<>>
    /\ last_op.event # Some(Head(chan))

\* C16: when the process exits, by the feed client's exit or by the
\* shutdown signal, the channel is empty because the send loop delivered
\* every enqueued event.
C16_ShutdownDeliversEveryEvent ==
    [][(phase # "exited" /\ phase' = "exited") => chan = <<>>]_vars

(***************************************************************************)
(* Properties of the reminder anchor (SpecAnchor)                          *)
(***************************************************************************)
\* The external-reference id of the primary activity of an activity list.
PrimaryExternalId(activities) ==
    IF pick_primary_activity(activities) = None THEN None
    ELSE extract_steam_app_id(Unwrap(pick_primary_activity(activities)))

\* C19: after an observation the anchor key is: none when reminders are
\* disabled; none when rich_presence_only and the observation has no
\* activity; with steam_only, the key of the primary activity's steam app id
\* and the status when the activity has one, and none otherwise; else the
\* key of the status alone.  A reminder tick leaves the key as it is.
C19_AnchorKeyIsThePolicy ==
    [][/\ \A g \in GuildInputs, raw \in RawStatuses, acts \in ActivityLists :
             Observe(g, raw, acts) =>
                AnchorKey(runtime_state') =
                   IF ~reminder.enabled THEN None
                   ELSE IF settings.rich_presence_only /\ acts = <<>> THEN None
                   ELSE IF reminder.steam_only
                   THEN IF PrimaryExternalId(acts) # None
                        THEN Some(<<"steam", Unwrap(PrimaryExternalId(acts)),
                                    StatusToString(normalize_status(raw))>>)
                        ELSE None
                   ELSE Some(<<"status", StatusToString(normalize_status(raw))>>)
       /\ last_op'.op = "tick" => AnchorKey(runtime_state') = AnchorKey(runtime_state)]_vars

\* An observation of a steam game under steam_only left the key of the app
\* and the status.
C19_Witness ==
    /\ last_op.op = "observe"
    /\ reminder.enabled /\ reminder.steam_only
    /\ AnchorKey(runtime_state) = Some(<<"steam", 570, "online">>)

\* C20: an observation whose derived key differs from the stored anchor key
\* replaces the anchor by one with that key, started_at_unix = now and
\* last_sequence = 0 (by no anchor when the derived key is none); an
\* observation whose derived key equals the stored one leaves the anchor as
\* it is; and so does an observation that repeats the stored status and
\* activity fingerprint.
C20_AnchorReplacedIffKeyDiffers ==
    [][\A g \in GuildInputs, raw \in RawStatuses, acts \in ActivityLists :
          Observe(g, raw, acts) =>
             LET derived == reminder_anchor_key(reminder, settings.rich_presence_only,
                                                normalize_status(raw),
                                                extract_activity_context(acts))
             IN  /\ IF derived # AnchorKey(runtime_state)
                    THEN runtime_state'.reminder_anchor =
                            IF derived = None THEN None
                            ELSE Some([key |-> Unwrap(derived), started_at_unix |-> now,
                                       last_sequence |-> 0])
                    ELSE runtime_state'.reminder_anchor = runtime_state.reminder_anchor
                 /\ (/\ runtime_state.current_status = Some(normalize_status(raw))
                     /\ runtime_state.current_activity_fingerprint
                           = Some(build_activity_fingerprint(acts)))
                    => runtime_state'.reminder_anchor = runtime_state.reminder_anchor]_vars

\* An observation of a changed status restarted the anchor after time had
\* passed.
C20_Witness ==
    /\ last_op.op = "observe"
    /\ last_op.previous # None
    /\ last_op.previous # last_op.status
    /\ now > 0
    /\ runtime_state.reminder_anchor # None
    /\ Unwrap(runtime_state.reminder_anchor).started_at_unix = now
    /\ Unwrap(runtime_state.reminder_anchor).last_sequence = 0

(***************************************************************************)
(* Properties of the reminder events (SpecReminder)                        *)
(***************************************************************************)
\* C21: a tick that reads a wall clock earlier than the anchor's
\* started_at_unix computes sequence 0 and fires no reminder.
C21_ElapsedIsClampedAtZero ==
    [][(ReminderTick /\ ActiveAnchor /\ now < Anchor.started_at_unix)
          => /\ last_op'.sequence = 0
             /\ ~last_op'.sent
             /\ chan' = chan
             /\ runtime_state' = runtime_state]_vars

\* C22: an event enqueued by a tick has no previous_status, the status and
\* the activity the runtime state holds at the tick, and reminder metadata
\* with the fired sequence (at least 1), the configured interval_seconds and
\* elapsed_seconds = sequence * interval_seconds; an event enqueued by an
\* observation has no reminder metadata.
C22_ReminderEventContent ==
    [][Len(chan') = Len(chan) + 1 =>
          IF last_op'.op = "tick"
          THEN /\ Enqueued.previous_status = None
               /\ Some(Enqueued.current_status) = runtime_state.current_status
               /\ Enqueued.activity = runtime_state.current_activity
               /\ Enqueued.guild_id = runtime_state.current_guild_id
               /\ last_op'.sequence >= 1
               /\ Enqueued.reminder =
                     Some([elapsed_seconds |->
                               last_op'.sequence * interval_seconds(reminder),
                           interval_seconds |-> interval_seconds(reminder),
                           sequence |-> last_op'.sequence])
          ELSE /\ last_op'.op = "observe"
               /\ Enqueued.reminder = None]_vars

\* A tick has just enqueued the reminder of sequence 2 of a period that has
\* an activity.
C22_Witness ==
    /\ last_op.op = "tick"
    /\ last_op.sent
    /\ chan # <<>>
    /\ chan[Len(chan)].reminder # None
    /\ chan[Len(chan)].activity # None
    /\ Unwrap(chan[Len(chan)].reminder).sequence = 2

(***************************************************************************)
(* Properties of the write-through of the observation handler (Spec)       *)
(***************************************************************************)
\* The observation of the step warranted an event: it is not a silenced
\* initial one and should_emit_presence_event holds for it.
WarrantsEmission ==
    /\ ~(last_op'.previous = None /\ ~settings.emit_initial_status)
    /\ should_emit_presence_event(last_op'.previous # last_op'.status, last_op'.activity_changed, settings.emit_on_activity_change, settings.rich_presence_only, runtime_state'.current_activity_fingerprint # Some(<<>>), settings.emit_initial_status, last_op'.previous # None)

\* C23: an observation calls set_status (the memory map gets the status and
\* the file is written) exactly when the status changed; and when that call
\* fails the runtime state still takes the observation and the event it
\* warrants is still enqueued.
C23_WriteThroughNeverBlocks ==
    [][last_op'.op = "observe" =>
          /\ IF last_op'.previous # last_op'.status
             THEN /\ state' = [state EXCEPT ![status_cache_key] = last_op'.status]
                  /\ IF last_op'.ok THEN file' = Some(SerializeFile(state'))
                     ELSE file' \in {file, None}
             ELSE /\ state' = state /\ file' = file /\ db' = db
                  /\ last_op'.ok
          /\ ~last_op'.ok =>
                /\ runtime_state'.current_status = last_op'.status
                /\ WarrantsEmission =>
                      /\ last_op'.sent
                      /\ chan' = Append(chan, Enqueued)
                      /\ Some(Enqueued.current_status) = last_op'.status
                      /\ Enqueued.previous_status = last_op'.previous]_vars

\* An observation whose set_status failed enqueued its event.
C23_Witness ==
    /\ last_op.op = "observe"
    /\ ~last_op.ok
    /\ last_op.sent
    /\ chan # <<>>
    /\ Some(chan[Len(chan)].current_status) = runtime_state.current_status

(***************************************************************************)
(* Properties of get_status and of the sqlite tier (SpecStore, SpecSteam)  *)
(***************************************************************************)
\* The status the sqlite tier holds under the status namespace for a key.
DurableStatus(key) ==
    IF ~store_cfg.sqlite \/ RowOf(db, STATUS_CACHE_NAMESPACE, key) = {} THEN None
    ELSE StatusFromString((CHOOSE r \in RowOf(db, STATUS_CACHE_NAMESPACE, key) : TRUE).value)

\* C24: get_status(key) returns the status of the memory map when the key
\* is there, whatever the sqlite tier holds or does; on a miss it returns
\* the status the sqlite tier holds for the key under "status.last" and
\* inserts it into the memory map, so that the next get_status(key) is
\* answered from the map; and it returns None only when the map misses and
\* the tier has no row for the key or its read fails.
C24_GetStatusReadsThroughAndBackfills ==
    [][\A key \in StatusKeys, db_io \in IoOutcomes :
          StoreGetStatus(key, db_io) =>
             IF state[key] # None
             THEN /\ last_op'.status = state[key]
                  /\ state' = state
                  /\ db' = db
             ELSE IF db_io = "ok" /\ DurableStatus(key) # None
             THEN /\ last_op'.status = DurableStatus(key)
                  /\ state' = [state EXCEPT ![key] = DurableStatus(key)]
                  /\ \A next_io \in IoOutcomes :
                        get_status(state', db', store_cfg.sqlite, key, now, next_io)
                           = [status |-> DurableStatus(key), state |-> state',
                              rows |-> db']
             ELSE /\ last_op'.status = None
                  /\ state' = state]_vars

\* A get_status that missed the memory map was answered by the sqlite tier
\* and backfilled the map.
C24_Witness ==
    /\ last_op.op = "get_status"
    /\ last_op.tier = "database"
    /\ last_op.status # None
    /\ state[Unwrap(last_op.key)] = last_op.status

\* The row of the table is live at t: it has no expiry, or one after t.
LiveRow(r, t) == r.expires_at = None \/ Unwrap(r.expires_at) > t

\* C25: get(namespace, key) returns the value of the row of exactly that
\* namespace and key when the row has no expiry or an expiry after now, and
\* leaves the table as it is; when the row's expiry is at or before now it
\* deletes that row, and no other, and returns None; without such a row it
\* returns None and changes nothing.
C25_DurableGet ==
    [][\A slot \in CacheSlots :
          CacheGet(slot[1], slot[2], "ok") =>
             LET hit == {r \in db : r.namespace = slot[1] /\ r.key = slot[2]}
             IN  /\ Cardinality(hit) <= 1
                 /\ IF \E r \in hit : LiveRow(r, now)
                    THEN /\ \E r \in hit : last_op'.value = Some(r.value)
                         /\ db' = db
                    ELSE /\ last_op'.value = None
                         /\ db' = db \ hit]_vars

\* A get deleted the expired row of its key and kept an expired row of the
\* same key in the other namespace.
C25_Witness ==
    /\ last_op.op = "cache_get"
    /\ last_op.ok
    /\ last_op.key = Some(<<"steam", "570">>)
    /\ last_op.value = None
    /\ \A r \in db : ~(r.namespace = "steam" /\ r.key = "570")
    /\ \E r \in db : r.namespace = "status" /\ r.key = "570" /\ ~LiveRow(r, now)

\* C26: set(namespace, key, value, ttl) leaves the table with the row of
\* (namespace, key) replaced by one with the value and expires_at = now + ttl
\* (none without ttl), minus every row of any namespace whose expiry is at
\* or before now; rows without expiry stay; and with ttl > 0 or without ttl
\* a get of (namespace, key) at any time before the expiry returns the value.
C26_DurableSet ==
    [][\A slot \in CacheSlots, value \in CacheValues, ttl_seconds \in CacheTtls :
          CacheSet(slot[1], slot[2], value, ttl_seconds, "ok") =>
             LET written == [namespace |-> slot[1], key |-> slot[2], value |-> value,
                             expires_at |-> IF ttl_seconds = None THEN None
                                            ELSE Some(now + Unwrap(ttl_seconds))]
                 others == {r \in db : ~(r.namespace = slot[1] /\ r.key = slot[2])}
             IN  /\ db' = {r \in others \cup {written} : LiveRow(r, now)}
                 /\ \A r \in others : r.expires_at = None => r \in db'
                 /\ (ttl_seconds = None \/ Unwrap(ttl_seconds) > 0) =>
                       \A t \in now..(MaxTime + 1) :
                          (ttl_seconds = None \/ t < now + Unwrap(ttl_seconds)) =>
                             SqliteGet(db', slot[1], slot[2], t)
                                = [value |-> Some(value), rows |-> db']]_vars

\* A set with a ttl swept an expired row of the other namespace, kept a row
\* without expiry, and its row is in the table.
C26_Witness ==
    /\ last_op.op = "cache_set"
    /\ last_op.ok
    /\ last_op.key = Some(<<"steam", "570">>)
    /\ now > 0
    /\ \E r \in db : r.namespace = "steam" /\ r.key = "570"
                     /\ r.expires_at = Some(now + 1) /\ Some(r.value) = last_op.value
    /\ \E r \in db : r.namespace = "steam" /\ r.key = "730" /\ r.expires_at = None
    /\ \A r \in db : ~(r.namespace = "status")

(***************************************************************************)
(* Properties of the tiers of the SteamClient (SpecTiers)                  *)
(***************************************************************************)
\* The live row the sqlite tier holds for an app at the wall clock, if any.
DurableDetails(app_id) ==
    {r \in db : /\ r.namespace = STEAM_GAME_DETAILS_NAMESPACE
                /\ r.key = AppKey(app_id)
                /\ LiveRow(r, now)}

\* The memory entry put_to_memory_cache inserts for a value now.
FreshEntry(value) ==
    Some([value |-> value, expires_at |-> instant + steam_cfg.memory_cache_ttl])

\* C27: a lookup with a live memory entry returns it and leaves both tiers
\* as they are; with a memory miss and a readable live sqlite row it returns
\* the row's details, puts them into the memory tier and asks the store API
\* nothing; only with both tiers missing is the answer that of the store
\* API, and details it returns are put into the memory tier and written to
\* the sqlite tier.
C27_TiersInOrder ==
    [][\A app_id \in {a \in AppIds : last_op'.key = Some(AppKey(a))} :
          \A api \in FewApiAnswers(app_id), get_io \in IoOutcomes, set_io \in IoOutcomes :
             FetchGameDetails(app_id, api, get_io, set_io) =>
                IF app_id \in LiveKeys(memory_cache, instant)
                THEN /\ last_op'.tier = "memory"
                     /\ last_op'.ok
                     /\ last_op'.value = Some(Unwrap(memory_cache[app_id]).value)
                     /\ memory_cache' = memory_cache
                     /\ db' = db
                ELSE IF get_io = "ok" /\ DurableDetails(app_id) # {}
                THEN /\ last_op'.tier = "database"
                     /\ last_op'.ok
                     /\ \E r \in DurableDetails(app_id) :
                           last_op'.value = DeserializeDetails(r.value)
                     /\ memory_cache'[app_id] = FreshEntry(Unwrap(last_op'.value))
                     /\ db' = db
                ELSE /\ last_op'.tier = "api"
                     /\ last_op'.ok = api.ok
                     /\ last_op'.value = api.details
                     /\ IF api.details # None
                        THEN /\ memory_cache'[app_id] = FreshEntry(Unwrap(api.details))
                             /\ set_io = "ok" =>
                                   \E r \in db' :
                                      /\ r.namespace = STEAM_GAME_DETAILS_NAMESPACE
                                      /\ r.key = AppKey(app_id)
                                      /\ r.value = SerializeDetails(Unwrap(api.details))
                                      /\ r.expires_at =
                                            Some(now + steam_cfg.db_cache_ttl_seconds)
                        ELSE /\ memory_cache'[app_id] = None
                             /\ db' \subseteq db]_vars

\* A lookup answered by the sqlite tier after the memory entry had expired,
\* backfilled into the memory tier.
C27_Witness ==
    \E app_id \in AppIds :
        /\ last_op.op = "fetch"
        /\ last_op.key = Some(AppKey(app_id))
        /\ last_op.tier = "database"
        /\ last_op.value # None
        /\ memory_cache[app_id] = FreshEntry(Unwrap(last_op.value))
        /\ instant > 0

(***************************************************************************)
(* Properties of failing sqlite calls (SpecFailures)                       *)
(***************************************************************************)
\* C28: a sqlite read that fails is a miss and a sqlite write that fails
\* is a no-op, for the caller too: get_status then answers from the memory
\* map alone, set_status succeeds exactly when its file write does,
\* fetch_game_details goes on to the store API and fails only when the
\* store API does; the table is left as it was by the failed call.
C28_TierErrorsAreMisses ==
    [][/\ \A file_io \in WriteOutcomes, status \in {"Online", "Dnd"} :
             StoreSetStatus(status_cache_key, status, file_io, "err") =>
                /\ last_op'.ok = (file_io = "ok")
                /\ state' = [state EXCEPT ![status_cache_key] = Some(status)]
                /\ file' = write_file(file, state', file_io)
                /\ db' = db
       /\ StoreGetStatus(status_cache_key, "err") =>
             /\ last_op'.status = state[status_cache_key]
             /\ state' = state
             /\ db' = db
       /\ \A api \in FewApiAnswers(570), set_io \in IoOutcomes :
             FetchGameDetails(570, api, "err", set_io) =>
                IF 570 \in LiveKeys(memory_cache, instant)
                THEN last_op'.ok /\ last_op'.tier = "memory" /\ db' = db
                ELSE /\ last_op'.tier = "api"
                     /\ last_op'.ok = api.ok
                     /\ last_op'.value = api.details
                     /\ set_io = "err" => db' = db
       /\ \A api \in FewApiAnswers(570), get_io \in IoOutcomes :
             FetchGameDetails(570, api, get_io, "err") =>
                /\ last_op'.ok = (last_op'.tier = "api" => api.ok)
                /\ db' \subseteq db
                /\ \A r \in db \ db' : ~LiveRow(r, now)
                /\ (last_op'.tier = "api" /\ api.details # None) =>
                      /\ last_op'.value = api.details
                      /\ memory_cache'[570] = FreshEntry(Unwrap(api.details))]_vars

\* A lookup whose sqlite read and write both failed returned the details of
\* the store API, while the table holds a live row for the app and the
\* status row written by a set_status.
C28_Witness ==
    /\ last_op.op = "fetch"
    /\ last_op.tier = "api"
    /\ last_op.ok
    /\ last_op.value # None
    /\ DurableDetails(570) # {}
    /\ RowOf(db, STATUS_CACHE_NAMESPACE, status_cache_key) # {}
    /\ memory_cache[570] = FreshEntry(Unwrap(last_op.value))
    /\ instant > 0

(***************************************************************************)
(* Properties of the interleaved producers (SpecInterleave)                *)
(***************************************************************************)
\* C29: an observation's event and a reminder are enqueued, and so handed
\* to the sink, in the order in which their locked sections ran: whenever
\* one of the two tasks completes its tx.send while the other one holds an
\* event of its own, the sending task is the one that decided first.
C29_EnqueuedInDecisionOrder ==
    [][/\ HandlerSend("h1") => Head(in_flight.order) = "h1"
       /\ TickSend => Head(in_flight.order) = "ticker"]_vars

(***************************************************************************)
(* Properties of the send loop under fair scheduling (SpecDrain)           *)
(***************************************************************************)
\* C30: the send loop calls the sink once with the oldest event of the
\* channel and removes that event whatever the sink answers, so a failed
\* delivery is neither retried nor in the way of the next event; and every
\* event that is in the channel is eventually handed to the sink.
C30_EveryEnqueuedEventIsAttempted ==
    /\ [][\A sink_io \in IoOutcomes :
             Deliver(sink_io) =>
                /\ last_op'.event = Some(Head(chan))
                /\ chan' = Tail(chan)]_vars
    /\ \A e \in PipelineEvents :
          (\E i \in 1..Len(chan) : chan[i] = e)
             ~> (last_op.op = "deliver" /\ last_op.event = Some(e))

(***************************************************************************)
(* Properties of the runtime-state lock (SpecLock)                         *)
(***************************************************************************)
\* C31: no task holds the lock of the runtime state while it calls
\* persist_status or while its tx.send is pending, so that with the handler
\* persisting or suspended on a full channel the reminder loop can run its
\* locked section, and with the reminder loop suspended on its send a new
\* invocation of the handler can take the lock.
C31_LockHeldOnlyForTheSection ==
    /\ \A h \in HandlerIds :
          in_flight.handlers[h].stage \in {"persist", "send"} => in_flight.lock # h
    /\ in_flight.ticker # None => in_flight.lock # "ticker"
    /\ (in_flight.handlers["h1"].stage \in {"persist", "send"} /\ in_flight.ticker = None)
          => ENABLED TickDecide
    /\ (in_flight.ticker # None /\ in_flight.handlers["h1"].stage = "idle")
          => ENABLED HandlerLock("h1", TargetGuildId, "Online", <<>>)

\* The channel is full, the handler holds an event it cannot send, and the
\* reminder loop has just run its locked section.
C31_Witness ==
    /\ Len(chan) = channel_capacity
    /\ in_flight.handlers["h1"].stage = "send"
    /\ last_op.op = "tick_decide"
    /\ file # None

(***************************************************************************)
(* Properties of the shared runtime state (SpecSnapshot)                   *)
(***************************************************************************)
\* The status, guild, activity and fingerprint of the runtime state are
\* those one invocation of the handler was called with, the one whose locked
\* section ended last, or those run() built.
OneObservation ==
    IF in_flight.written = None
    THEN /\ runtime_state.current_status = None
         /\ runtime_state.current_guild_id = None
         /\ runtime_state.current_activity = None
         /\ runtime_state.current_activity_fingerprint = None
    ELSE LET input == Unwrap(in_flight.written)
         IN  /\ runtime_state.current_status = Some(input.next_status)
             /\ runtime_state.current_guild_id = input.guild_id
             /\ runtime_state.current_activity = input.activity
             /\ runtime_state.current_activity_fingerprint =
                   Some(input.activity_fingerprint)

\* C32: whenever a tick's locked section or the reads of an observation run,
\* while other invocations of the handler are in any stage, the four fields
\* they read were written by one and the same observation or are all those
\* of the initial state; a reminder the tick builds carries that
\* observation's status, guild and activity.
C32_StateIsNeverTorn ==
    [][last_op'.op \in {"tick_decide", "handler_lock"} =>
          /\ OneObservation
          /\ (last_op'.op = "tick_decide" /\ last_op'.sent) =>
                LET input == Unwrap(in_flight.written)
                    event == Unwrap(last_op'.event)
                IN  /\ in_flight.written # None
                    /\ event.current_status = input.next_status
                    /\ event.guild_id = input.guild_id
                    /\ event.activity = input.activity]_vars

\* A tick has built a reminder carrying an activity while one invocation of
\* the handler waits to send and the other was the last to write the state.
C32_Witness ==
    /\ last_op.op = "tick_decide"
    /\ last_op.sent
    /\ Unwrap(last_op.event).activity # None
    /\ in_flight.handlers["h1"].stage = "send"
    /\ in_flight.handlers["h1"].input # in_flight.written
    /\ in_flight.handlers["h2"].stage = "idle"

(***************************************************************************)
(* Properties of concurrent status changes (SpecPersist)                   *)
(***************************************************************************)
\* C33: when no invocation of the handler is running and no persist_status
\* has failed, the status the status cache holds for the tracked key, in its
\* memory map and in its file, is the current status of the runtime state.
C33_StoreFollowsRuntimeState ==
    (/\ \A h \in HandlerIds : in_flight.handlers[h].stage = "idle"
     /\ ~in_flight.failed)
        => /\ state[status_cache_key] = runtime_state.current_status
           /\ read_file(file)[status_cache_key] = runtime_state.current_status

(***************************************************************************)
(* Properties of concurrent set_status calls (SpecWriters)                 *)
(***************************************************************************)
\* C34: when no caller is inside set_status and no call has returned an
\* Err, the status file holds exactly the records of the memory map: it is
\* there once a status was set, and it is the snapshot of the last insert.
C34_FileIsTheFinalSnapshot ==
    (/\ \A c \in WriterIds : in_flight.writers[c].stage = "idle"
     /\ ~in_flight.failed)
        => /\ read_file(file) = state
           /\ state # EmptyMap => file # None

(***************************************************************************)
(* Properties of the runtime state across lifetimes (SpecSeeded)           *)
(***************************************************************************)
\* The key reminder_anchor_key derives from the current status and activity
\* of the runtime state; none while no status is known.
DerivedAnchorKey ==
    IF runtime_state.current_status = None THEN None
    ELSE reminder_anchor_key(reminder, settings.rich_presence_only,
                             Unwrap(runtime_state.current_status),
                             runtime_state.current_activity)

\* C35: in every state, the one run() builds from a recovered status
\* included, the runtime state has an anchor exactly when the policy gives a
\* key for its current status and activity, and the anchor's key is that key.
C35_AnchorMatchesThePolicy ==
    /\ IsSome(runtime_state.reminder_anchor) <=> IsSome(DerivedAnchorKey)
    /\ AnchorKey(runtime_state) = DerivedAnchorKey

\* A restart has recovered a status under a policy that gives no key for a
\* status without an activity: the state it built has the status and no anchor.
C35_Witness ==
    /\ last_op.op = "restart"
    /\ IsSome(runtime_state.current_status)
    /\ reminder.enabled
    /\ reminder.steam_only \/ settings.rich_presence_only
    /\ runtime_state.reminder_anchor = None

\* C36: every reminder event in the channel was produced with reminders
\* enabled; with steam_only it carries an activity that has a steam app id;
\* with rich_presence_only it carries an activity.
C36_RemindersRespectTheFlags ==
    \A i \in 1..Len(chan) :
        chan[i].reminder # None =>
            /\ reminder.enabled
            /\ reminder.steam_only =>
                  /\ chan[i].activity # None
                  /\ Unwrap(chan[i].activity).steam_app_id # None
            /\ settings.rich_presence_only => chan[i].activity # None

\* A tick has enqueued a reminder under steam_only and rich_presence_only.
C36_Witness ==
    /\ last_op.op = "tick"
    /\ last_op.sent
    /\ reminder.steam_only
    /\ settings.rich_presence_only
    /\ chan # <<>>
    /\ chan[Len(chan)].reminder # None

(***************************************************************************)
(* Properties of the first observation of a lifetime (Spec)                *)
(***************************************************************************)
\* C37 as stated: the observation that follows a restart that recovered a
\* status, and whose status differs from it, enqueues a status-change event
\* whose previous_status is the recovered status, whatever the flags.
C37_RecoveredStatusIsAnnouncedAsPrevious ==
    [][\A g \in GuildInputs, raw \in RawStatuses, acts \in ActivityLists :
          (/\ Observe(g, raw, acts)
           /\ last_op.op = "restart"
           /\ last_op.status # None
           /\ last_op.status # Some(normalize_status(raw)))
          => /\ Len(chan') = Len(chan) + 1
             /\ chan' = Append(chan, Enqueued)
             /\ Enqueued.previous_status = last_op.status
             /\ Enqueued.current_status = normalize_status(raw)]_vars

\* C37, amended: the observation that follows a restart that recovered a
\* status, and whose status differs from it, is decided with the recovered
\* status as its previous status, emit_initial_status playing no part:
\* without rich_presence_only it enqueues a status-change event whose
\* previous_status is the recovered status; with rich_presence_only it
\* enqueues that event exactly when emit_on_activity_change is set and the
\* observation has an activity.
C37_RecoveredStatusIsThePreviousStatus ==
    [][\A g \in GuildInputs, raw \in RawStatuses, acts \in ActivityLists :
          (/\ Observe(g, raw, acts)
           /\ last_op.op = "restart"
           /\ last_op.status # None
           /\ last_op.status # Some(normalize_status(raw)))
          => /\ last_op'.previous = last_op.status
             /\ IF settings.rich_presence_only
                   => (settings.emit_on_activity_change
                       /\ build_activity_fingerprint(acts) # <<>>)
                THEN /\ Len(chan') = Len(chan) + 1
                     /\ chan' = Append(chan, Enqueued)
                     /\ Enqueued.previous_status = last_op.status
                     /\ Enqueued.current_status = normalize_status(raw)
                     /\ Enqueued.reminder = None
                ELSE chan' = chan]_vars

\* With emit_initial_status off, the first observation of a lifetime has
\* enqueued a change from the recovered status to a different one.
C37_Witness ==
    /\ last_op.op = "observe"
    /\ last_op.initial
    /\ ~settings.emit_initial_status
    /\ last_op.previous # None
    /\ last_op.previous # last_op.status
    /\ last_op.sent
    /\ chan # <<>>
    /\ chan[Len(chan)].previous_status = last_op.previous

(***************************************************************************)
(* A failed file write (SpecStore)                                         *)
(***************************************************************************)
\* C38: when set_status(key, status) returns an error, the sqlite tier is not
\* written, the memory map already holds the status, so that a following
\* get_status(key) returns it, and the file still holds what it held before
\* the call.
C38_FailedWriteLeavesMemoryAhead ==
    [][\A key \in StatusKeys, status \in StoreStatuses,
          file_io \in WriteOutcomes, db_io \in IoOutcomes :
          (StoreSetStatus(key, status, file_io, db_io) /\ ~last_op'.ok)
          => /\ db' = db
             /\ state'[key] = Some(status)
             /\ get_status(state', db', store_cfg.sqlite, key, now, "ok").status
                    = Some(status)
             /\ file' = file
             /\ read_file(file')[key] = read_file(file)[key]]_vars

(***************************************************************************)
(* The lifetime of a looked-up value (SpecBackfill)                        *)
(***************************************************************************)
\* The second at which the store API gave the value.
FetchedAt(value) == Unwrap(Unwrap(value).current_players)

\* C39: a lookup answered by the sqlite tier leaves a memory entry that
\* expires a full memory lifetime after the lookup, whatever is left of the
\* row's lifetime; and a lookup answered by the memory tier or the sqlite
\* tier returns a value fetched less than the sqlite lifetime plus the
\* memory lifetime ago.
C39_BackfillGetsAFreshLifetime ==
    [][\A app_id \in BackfillApps :
          (last_op'.op = "fetch" /\ last_op'.key = Some(AppKey(app_id)))
          => /\ last_op'.tier = "database"
                => memory_cache'[app_id]
                     = Some([value |-> Unwrap(last_op'.value),
                             expires_at |-> instant + steam_cfg.memory_cache_ttl])
             /\ last_op'.tier \in {"memory", "database"}
                => now < FetchedAt(last_op'.value) + steam_cfg.db_cache_ttl_seconds
                             + steam_cfg.memory_cache_ttl]_vars

\* The memory tier has answered with a value whose sqlite row has expired:
\* the entry was backfilled when less than a memory lifetime was left of
\* the row's.
C39_Witness ==
    /\ last_op.op = "fetch"
    /\ last_op.tier = "memory"
    /\ now >= FetchedAt(last_op.value) + steam_cfg.db_cache_ttl_seconds
    /\ now >= FetchedAt(last_op.value) + steam_cfg.memory_cache_ttl

(***************************************************************************)
(* Lookups the store API does not answer (SpecTiers)                       *)
(***************************************************************************)
\* The lookup of app_id went to the store API, which returned Ok(None) or
\* failed.
NegativeLookup(app_id) ==
    /\ last_op'.op = "fetch"
    /\ last_op'.key = Some(AppKey(app_id))
    /\ last_op'.tier = "api"
    /\ last_op'.value = None

\* C40 as stated: a lookup that the store API answers with no result or an
\* error leaves the memory map and the sqlite table as they were.
C40_NegativeLookupLeavesTiersUnchanged ==
    [][\A app_id \in AppIds :
          NegativeLookup(app_id) => (memory_cache' = memory_cache /\ db' = db)]_vars

\* C40, amended: a lookup that the store API answers with no result or an
\* error adds and updates nothing in either tier: the memory map and the
\* sqlite table are as they were, less the expired entry and the expired
\* row of that app, which the two reads deleted; and a following lookup of
\* the app that misses in both tiers calls the store API again.
C40_NegativeLookupStoresNothing ==
    [][\A app_id \in AppIds :
          NegativeLookup(app_id)
          => /\ \A a \in AppIds :
                   memory_cache'[a] =
                      IF a = app_id /\ a \notin LiveKeys(memory_cache, instant)
                      THEN None ELSE memory_cache[a]
             /\ db' \subseteq db
             /\ \A r \in db \ db' :
                   /\ r.namespace = STEAM_GAME_DETAILS_NAMESPACE
                   /\ r.key = AppKey(app_id)
                   /\ IsExpired(r, now)
             /\ get_from_memory_cache(memory_cache', app_id, instant).value = None
             /\ \A get_io \in IoOutcomes, api \in FewApiAnswers(app_id) :
                   get_from_database_cache(store_cfg.sqlite, db', app_id, now,
                                           get_io).value = None
                   => fetch_game_details(steam_cfg, memory_cache', db',
                                         store_cfg.sqlite, app_id, instant, now, api,
                                         get_io, "ok", None).tier = "api"]_vars

\* The store API has answered a lookup with no result or an error, the
\* lookup having found and removed the expired memory entry of the app,
\* while the map still holds nothing for it.
C40_Witness ==
    /\ last_op.op = "fetch"
    /\ last_op.tier = "api"
    /\ last_op.value = None
    /\ last_op.swept # {}
    /\ \E app_id \in AppIds :
          last_op.key = Some(AppKey(app_id)) /\ memory_cache[app_id] = None

====
